---- MODULE Spec2Model ----
(***************************************************************************)
(* A model of the request-model pipeline of the HAR reverse-engineering    *)
(* backend: the API-request filter, the request-model extractor, the       *)
(* authentication detector and redactor, and the curl, code and            *)
(* documentation projectors.  Python strings are TLA+ strings (sequences   *)
(* of characters), Python lists are sequences, and a Python dict is the    *)
(* sequence of its <<key, value>> items in insertion order.                *)
(***************************************************************************)
EXTENDS Integers, Sequences, FiniteSets, TLC

VARIABLES
    pc,              \* the step the modelled call has reached
    value,           \* redact_sensitive_values: the argument
    other,           \* redact_sensitive_values: a second argument, for comparison
    redacted,        \* redact_sensitive_values(value)
    redactedOther,   \* redact_sensitive_values(other)
    entries,         \* filter_api_requests: the HAR entries it is given
    api_requests,    \* filter_api_requests: the entries it returns
    post_data,       \* _parse_request_body: the postData it is given
    body_info,       \* _parse_request_body: what the call gives back
    entry,           \* the HAR entry under extraction and projection
    request_details, \* the request model, or what extract_request_details(entry) gives back
    auth_info,       \* detect_authentication: the descriptor it builds
    curl_command,    \* generate_curl_command(entry)
    language,        \* generate_code: the target language
    code,            \* what generate_code_endpoint gives back for language
    format_type,     \* generate_documentation: the format
    documentation,   \* what export_docs_endpoint gives back for format_type
    summaries,       \* analyze_har_file: the summaries handed to the LLM selection
    best_index,      \* analyze_har_file: what identify_best_request gave back
    analyze_response \* analyze_har_file: the AnalyzeResponse, or the HTTPException raised

vars == <<pc, value, other, redacted, redactedOther, entries, api_requests,
          post_data, body_info, entry, request_details, auth_info,
          curl_command, language, code, format_type, documentation,
          summaries, best_index, analyze_response>>

redactVars == <<value, other, redacted, redactedOther>>

filterVars == <<entries, api_requests>>

bodyVars == <<post_data, body_info>>

modelVars == <<entry, request_details, auth_info>>

projectionVars == <<curl_command, language, code, format_type, documentation>>

analyzeVars == <<summaries, best_index, analyze_response>>

\* The value of a variable in the runs of the calls that do not use it
Unused == "-"

RedactIdle == value = Unused /\ other = Unused /\ redacted = Unused /\ redactedOther = Unused

FilterIdle == entries = Unused /\ api_requests = Unused

BodyIdle == post_data = Unused /\ body_info = Unused

ProjectionIdle ==
    /\ curl_command = Unused /\ language = Unused /\ code = Unused
    /\ format_type = Unused /\ documentation = Unused

AnalyzeIdle == summaries = Unused /\ best_index = Unused /\ analyze_response = Unused

(***************************************************************************)
(* Python str operations                                                   *)
(***************************************************************************)

UpperLetters == "ABCDEFGHIJKLMNOPQRSTUVWXYZ"

LowerLetters == "abcdefghijklmnopqrstuvwxyz"

\* The lower-case letter of each upper-case letter
ToLower ==
    [c \in {SubSeq(UpperLetters, i, i) : i \in 1..Len(UpperLetters)} |->
        LET i == CHOOSE i \in 1..Len(UpperLetters) : SubSeq(UpperLetters, i, i) = c
        IN  SubSeq(LowerLetters, i, i)]

\* str.lower() of one character
LowerChar(c) == IF c \in DOMAIN ToLower THEN ToLower[c] ELSE c

RECURSIVE Lower(_)
\* str.lower()
Lower(s) == IF s = "" THEN "" ELSE LowerChar(Head(s)) \o Lower(Tail(s))

\* str.startswith(p)
StartsWith(s, p) == Len(s) >= Len(p) /\ SubSeq(s, 1, Len(p)) = p

\* p in s
Contains(s, p) == \E i \in 1..(Len(s) - Len(p) + 1) : SubSeq(s, i, i + Len(p) - 1) = p

RECURSIVE Replace(_, _, _)
\* str.replace(old, new): every non-overlapping occurrence, left to right
Replace(s, old, new) ==
    IF Len(s) < Len(old) THEN s
    ELSE IF StartsWith(s, old)
         THEN new \o Replace(SubSeq(s, Len(old) + 1, Len(s)), old, new)
         ELSE Head(s) \o Replace(Tail(s), old, new)

RECURSIVE Repeat(_, _)
\* c * n
Repeat(c, n) == IF n <= 0 THEN "" ELSE c \o Repeat(c, n - 1)

\* s[from-1:to] for 1 <= from
Slice(s, from, to) == SubSeq(s, from, IF to < Len(s) THEN to ELSE Len(s))

\* s[:n]
Prefix(s, n) == SubSeq(s, 1, IF n < Len(s) THEN n ELSE Len(s))

\* s[-n:] for n > 0
Suffix(s, n) == SubSeq(s, IF n < Len(s) THEN Len(s) - n + 1 ELSE 1, Len(s))

(***************************************************************************)
(* Python dict operations on a sequence of <<key, value>> items            *)
(***************************************************************************)

\* key in d
DictHas(d, k) == \E i \in 1..Len(d) : d[i][1] = k

\* d.get(key, default)
DictGet(d, k, default) ==
    IF DictHas(d, k) THEN d[CHOOSE i \in 1..Len(d) : d[i][1] = k][2] ELSE default

\* d[key] = val: a known key keeps its place, a new key goes last
DictSet(d, k, val) ==
    IF DictHas(d, k)
    THEN [i \in 1..Len(d) |-> IF d[i][1] = k THEN <<k, val>> ELSE d[i]]
    ELSE Append(d, <<k, val>>)

(***************************************************************************)
(* har_parser.redact_sensitive_values                                      *)
(***************************************************************************)

ShortLimit == 8

MediumLimit == 12

Mask == "*"

redact_sensitive_values_keeps_more(v) ==
    IF v = "" \/ Len(v) < ShortLimit THEN "****"
    ELSE Prefix(v, 4) \o Repeat(Mask, Len(v) - 8) \o Suffix(v, 4)

redact_sensitive_values_leaks_middle(v) ==
    IF v = "" \/ Len(v) < ShortLimit THEN "****"
    ELSE IF Len(v) <= MediumLimit
         THEN Prefix(v, 2) \o Repeat(Mask, Len(v) - 5) \o Suffix(v, 3)
         ELSE Prefix(v, 4) \o Repeat(Mask, Len(v) - 8) \o Suffix(v, 4)

redact_sensitive_values(v) ==
    IF v = "" \/ Len(v) < ShortLimit THEN "****"
    ELSE IF Len(v) <= MediumLimit
         THEN Prefix(v, 2) \o Repeat(Mask, Len(v) - 4) \o Suffix(v, 2)
         ELSE Prefix(v, 4) \o Repeat(Mask, Len(v) - 8) \o Suffix(v, 4)

\* The longest credential the redaction runs draw.
MaxValueLen == 14

SecretBases == {"abcdefghijklmnopqrstuvwxyz", "s3cr*t-T0k3n_*#$%&()+=!?", "aaaaaaaaaaaaaaaaaaaaaaaa"}

SecretAlphabet == {"a", "Z", "*"}

\* Every window of a base string, up to maxLen characters.
SecretValues(maxLen) ==
    {SubSeq(b, i, i + n - 1) : b \in SecretBases, i \in 1..4, n \in 0..maxLen}

\* v with its k-th character replaced by c
WithChar(v, k, c) == SubSeq(v, 1, k - 1) \o c \o SubSeq(v, k + 1, Len(v))

\* The values compared with v: v with one character changed, and the short values.
OtherValues(v) ==
    {WithChar(v, k, c) : k \in 1..Len(v), c \in SecretAlphabet}
        \cup SecretValues(ShortLimit - 1)

InitRedact ==
    /\ pc = "redact"
    /\ FilterIdle /\ BodyIdle /\ AnalyzeIdle /\ ProjectionIdle
    /\ entry = Unused /\ request_details = Unused /\ auth_info = Unused
    /\ value \in SecretValues(MaxValueLen)
    /\ other \in OtherValues(value)
    /\ redacted = ""
    /\ redactedOther = ""

Redact ==
    /\ pc = "redact"
    /\ redacted' = redact_sensitive_values(value)
    /\ redactedOther' = redact_sensitive_values(other)
    /\ pc' = "done"
    /\ UNCHANGED <<value, other>>
    /\ UNCHANGED <<filterVars, bodyVars, modelVars, projectionVars, analyzeVars>>

NextRedact == Redact

SpecRedact == InitRedact /\ [][NextRedact]_vars

RedactShape(v, r) ==
    LET n == Len(v)
        keep == IF n <= 12 THEN 2 ELSE 4
    IN  IF n < 8
        THEN r = "****"
        ELSE /\ Len(r) = n
             /\ \A i \in 1..n :
                    SubSeq(r, i, i) =
                        IF i <= keep \/ i > n - keep THEN SubSeq(v, i, i) ELSE "*"

KeptLen(n) == IF n < 8 THEN 0 ELSE IF n <= 12 THEN 2 ELSE 4

\* C8: outside the kept prefix and suffix redact(v) holds only the mask
\* character: two values of one length that agree on the kept prefix and suffix
\* redact to the same string, and so do any two values shorter than 8.
C8_RedactHidesInterior ==
    pc = "done" =>
        LET n == Len(value)
            k == KeptLen(n)
        IN  /\ \A i \in (k + 1)..(Len(redacted) - k) : SubSeq(redacted, i, i) = "*"
            /\ (/\ Len(other) = n
                /\ Prefix(other, k) = Prefix(value, k)
                /\ SubSeq(other, n - k + 1, n) = SubSeq(value, n - k + 1, n))
                    => redactedOther = redacted
            /\ (n < 8 /\ Len(other) < 8) => redactedOther = redacted

C8_Witness ==
    /\ pc = "done"
    /\ Len(value) = 10
    /\ other # value
    /\ Prefix(other, 2) = Prefix(value, 2)
    /\ Suffix(other, 2) = Suffix(value, 2)
    /\ redactedOther = redacted

(***************************************************************************)
(* har_parser.detect_authentication                                        *)
(***************************************************************************)

NoAuth == [type |-> "none", location |-> "none", redacted_value |-> "", original_value |-> ""]

api_key_headers == <<"x-api-key", "api-key", "x-auth-token", "authorization">>

api_key_params == <<"api_key", "apikey", "key", "token", "access_token">>

\* 1: the Authorization header
CheckAuthorization(headers, info) ==
    LET auth_header == Lower(DictGet(headers, "Authorization", ""))
    IN  IF StartsWith(auth_header, "bearer ")
        THEN LET token == Replace(DictGet(headers, "Authorization", ""), "Bearer ", "")
             IN  [type |-> "bearer_token", location |-> "header",
                  redacted_value |-> redact_sensitive_values(token),
                  original_value |-> token]
        ELSE IF StartsWith(auth_header, "basic ")
             THEN [type |-> "basic_auth", location |-> "header",
                   redacted_value |-> "Basic ********",
                   original_value |-> DictGet(headers, "Authorization", "")]
             ELSE info

RECURSIVE ApiKeyHeaderLoop(_, _, _)
\* The loop over api_key_headers: the first name present with a non-empty
\* value, while no type is set, sets the descriptor and ends the loop.
ApiKeyHeaderLoop(names, headers, info) ==
    IF names = <<>> THEN info
    ELSE IF DictHas(headers, Head(names))
         THEN LET val == DictGet(headers, Head(names), "")
              IN  IF val # "" /\ ~(info.type # "none")
                  THEN [type |-> "api_key", location |-> "header",
                        redacted_value |-> redact_sensitive_values(val),
                        original_value |-> val]
                  ELSE ApiKeyHeaderLoop(Tail(names), headers, info)
         ELSE ApiKeyHeaderLoop(Tail(names), headers, info)

RECURSIVE ApiKeyHeaderLoop_unguarded(_, _, _)
ApiKeyHeaderLoop_unguarded(names, headers, info) ==
    IF names = <<>> THEN info
    ELSE IF DictGet(headers, Head(names), "") # ""
         THEN [type |-> "api_key", location |-> "header",
               redacted_value |-> redact_sensitive_values(DictGet(headers, Head(names), "")),
               original_value |-> DictGet(headers, Head(names), "")]
         ELSE ApiKeyHeaderLoop_unguarded(Tail(names), headers, info)

CheckApiKeyHeaders_overrides(headers, info) ==
    ApiKeyHeaderLoop_unguarded(api_key_headers, headers, info)

\* 2: the API-key headers
CheckApiKeyHeaders(headers, info) == ApiKeyHeaderLoop(api_key_headers, headers, info)

RECURSIVE ApiKeyParamLoop(_, _, _)
\* The loop over api_key_params: the first name present with a non-empty
\* value, while the type is none, sets the descriptor and ends the loop.
ApiKeyParamLoop(names, query_params, info) ==
    IF names = <<>> THEN info
    ELSE IF DictHas(query_params, Head(names))
         THEN LET val == DictGet(query_params, Head(names), "")
              IN  IF val # "" /\ info.type = "none"
                  THEN [type |-> "api_key", location |-> "query",
                        redacted_value |-> redact_sensitive_values(val),
                        original_value |-> val]
                  ELSE ApiKeyParamLoop(Tail(names), query_params, info)
         ELSE ApiKeyParamLoop(Tail(names), query_params, info)

CheckApiKeyParams_capture_order(query_params, info) ==
    LET hits == {i \in 1..Len(query_params) :
                    /\ \E j \in 1..Len(api_key_params) : api_key_params[j] = query_params[i][1]
                    /\ query_params[i][2] # ""}
    IN  IF hits = {} \/ info.type # "none" THEN info
        ELSE LET i == CHOOSE i \in hits : \A j \in hits : i <= j
             IN  [type |-> "api_key", location |-> "query",
                  redacted_value |-> redact_sensitive_values(query_params[i][2]),
                  original_value |-> query_params[i][2]]

\* 3: the API-key query parameters
CheckApiKeyParams(query_params, info) == ApiKeyParamLoop(api_key_params, query_params, info)

detect_authentication(details) ==
    CheckApiKeyParams(details.query_params,
        CheckApiKeyHeaders(details.headers,
            CheckAuthorization(details.headers, NoAuth)))

\* The most items, headers and query parameters together, of a model the
\* detector is run on.
MaxAuthItems == 3

AuthHeaderNames == <<"Authorization", "authorization", "x-api-key", "api-key", "x-auth-token">>

AuthHeaderValues(name) ==
    IF name = "Authorization"
    THEN {"", "Bearer abc12345", "bearer abc12345", "Bearer to Bearer 9", "Basic dXNlcjpwYXNz", "Token k1"}
    ELSE IF name = "authorization"
         THEN {"", "Bearer abc12345", "lower-k"}
         ELSE {"", name \o "-secret"}

AuthParamNames == {"api_key", "apikey", "key", "token", "access_token", "q"}

AuthParamValues(name) == {"", name \o "-VAL"}

RECURSIVE AuthHeaderDicts(_, _)
\* The header dicts of at most n items over the names from position `from` on,
\* in the order of AuthHeaderNames.
AuthHeaderDicts(from, n) ==
    IF n = 0 \/ from > Len(AuthHeaderNames) THEN {<<>>}
    ELSE AuthHeaderDicts(from + 1, n)
            \cup {<<<<AuthHeaderNames[from], v>>>> \o d :
                    v \in AuthHeaderValues(AuthHeaderNames[from]),
                    d \in AuthHeaderDicts(from + 1, n - 1)}

RECURSIVE AuthParamDicts(_)
\* The query-parameter dicts of at most n items, in every capture order.
AuthParamDicts(n) ==
    IF n = 0 THEN {<<>>}
    ELSE LET shorter == AuthParamDicts(n - 1)
         IN  shorter \cup
                UNION {UNION {{Append(d, <<k, v>>) : v \in AuthParamValues(k)} :
                                k \in {a \in AuthParamNames : ~DictHas(d, a)}} :
                        d \in {e \in shorter : Len(e) = n - 1}}

\* The models of at most n items.
AuthModels(n) ==
    UNION {{[headers |-> h, query_params |-> q] : q \in AuthParamDicts(n - Len(h))} :
            h \in AuthHeaderDicts(1, n)}

InitAuth ==
    /\ pc = "authorization"
    /\ request_details \in AuthModels(MaxAuthItems)
    /\ auth_info = NoAuth
    /\ entry = Unused
    /\ RedactIdle /\ FilterIdle /\ BodyIdle /\ AnalyzeIdle /\ ProjectionIdle

AuthorizationStep ==
    /\ pc = "authorization"
    /\ auth_info' = CheckAuthorization(request_details.headers, auth_info)
    /\ pc' = "api_key_headers"
    /\ UNCHANGED <<entry, request_details>>
    /\ UNCHANGED <<redactVars, filterVars, bodyVars, projectionVars, analyzeVars>>

ApiKeyHeaderStep ==
    /\ pc = "api_key_headers"
    /\ auth_info' = CheckApiKeyHeaders(request_details.headers, auth_info)
    /\ pc' = "query_params"
    /\ UNCHANGED <<entry, request_details>>
    /\ UNCHANGED <<redactVars, filterVars, bodyVars, projectionVars, analyzeVars>>

ApiKeyParamStep ==
    /\ pc = "query_params"
    /\ auth_info' = CheckApiKeyParams(request_details.query_params, auth_info)
    /\ pc' = "done"
    /\ UNCHANGED <<entry, request_details>>
    /\ UNCHANGED <<redactVars, filterVars, bodyVars, projectionVars, analyzeVars>>

NextAuth == AuthorizationStep \/ ApiKeyHeaderStep \/ ApiKeyParamStep

SpecAuth == InitAuth /\ [][NextAuth]_vars

\* The value of the Authorization header of the model under detection.
AuthorizationValue == DictGet(request_details.headers, "Authorization", "")

\* The positions, in a fixed list of names, of the names a dict holds with a
\* non-empty value.
PresentIn(names, dict) ==
    {j \in 1..Len(names) : \E i \in 1..Len(dict) : dict[i][1] = names[j] /\ dict[i][2] # ""}

FirstPresent(names, dict) ==
    LET j == CHOOSE j \in PresentIn(names, dict) : \A k \in PresentIn(names, dict) : j <= k
    IN  (CHOOSE i \in 1..Len(dict) : dict[i][1] = names[j])

C4_KeyHeaderNames == <<"x-api-key", "api-key", "x-auth-token", "authorization">>

\* C4: the API-key-header step sets type=api_key, location=header exactly when
\* the Authorization step left type none and one of x-api-key, api-key,
\* x-auth-token, authorization (the first in that order) is present with a
\* non-empty value; so an Authorization value starting with "bearer " or
\* "basic " ends as bearer_token or basic_auth whatever API keys are present.
C4_HeaderPriority ==
    /\ [][(pc = "api_key_headers" /\ pc' = "query_params") =>
            LET hs == request_details.headers
                fires == auth_info.type = "none" /\ PresentIn(C4_KeyHeaderNames, hs) # {}
            IN  /\ (auth_info'.type = "api_key" /\ auth_info'.location = "header") <=> fires
                /\ fires => auth_info'.original_value
                                = hs[FirstPresent(C4_KeyHeaderNames, hs)][2]
                /\ ~fires => auth_info' = auth_info]_vars
    /\ [](pc = "done" =>
            /\ StartsWith(Lower(AuthorizationValue), "bearer ")
                    => auth_info.type = "bearer_token"
            /\ StartsWith(Lower(AuthorizationValue), "basic ")
                    => auth_info.type = "basic_auth")

C4_Witness ==
    /\ pc = "done"
    /\ AuthorizationValue = "Bearer abc12345"
    /\ DictGet(request_details.headers, "x-api-key", "") # ""
    /\ DictGet(request_details.query_params, "key", "") # ""
    /\ auth_info.type = "bearer_token"

\* C5: for an Authorization value that starts, in any letter case, with
\* "bearer ", the result is bearer_token in the header, original_value is the
\* rest of the value after those 7 characters, and redacted_value is its
\* redaction.
C5_BearerRemainder ==
    (pc = "done" /\ StartsWith(Lower(AuthorizationValue), "bearer ")) =>
        LET rest == SubSeq(AuthorizationValue, 8, Len(AuthorizationValue))
        IN  /\ auth_info.type = "bearer_token"
            /\ auth_info.location = "header"
            /\ auth_info.original_value = rest
            /\ auth_info.redacted_value = redact_sensitive_values(rest)

C6_KeyParamNames == <<"api_key", "apikey", "key", "token", "access_token">>

\* C6: the query-parameter step acts only when the header steps left type
\* none; then the result is api_key in the query with the value of the first
\* of api_key, apikey, key, token, access_token present with a non-empty value,
\* whatever the capture order, and with no match at all the descriptor is
\* none, none and two empty values.
C6_QueryKeyLast ==
    [][(pc = "query_params" /\ pc' = "done") =>
        LET q == request_details.query_params
        IN  IF auth_info.type # "none"
            THEN auth_info' = auth_info
            ELSE IF PresentIn(C6_KeyParamNames, q) # {}
                 THEN /\ auth_info'.type = "api_key"
                      /\ auth_info'.location = "query"
                      /\ auth_info'.original_value = q[FirstPresent(C6_KeyParamNames, q)][2]
                 ELSE auth_info' = [type |-> "none", location |-> "none",
                                    redacted_value |-> "", original_value |-> ""]]_vars

C6_Witness ==
    /\ pc = "done"
    /\ Len(request_details.query_params) = 2
    /\ request_details.query_params[1] = <<"token", "token-VAL">>
    /\ request_details.query_params[2] = <<"apikey", "apikey-VAL">>
    /\ auth_info.type = "api_key"
    /\ auth_info.location = "query"
    /\ auth_info.original_value = "apikey-VAL"

(***************************************************************************)
(* har_parser.filter_api_requests                                          *)
(***************************************************************************)

non_api_types ==
    <<"text/html", "text/css", "image/", "font/", "video/", "audio/",
      "application/javascript", "text/javascript">>

RECURSIVE FirstContentType(_)
\* The loop of _get_response_content_type: the value of the first header whose
\* lower-cased name is content-type, or "".
FirstContentType(headers) ==
    IF headers = <<>> THEN ""
    ELSE IF Lower(Head(headers).name) = "content-type"
         THEN Head(headers).value
         ELSE FirstContentType(Tail(headers))

_get_response_content_type(response) == FirstContentType(DictGet(response, "headers", <<>>))

RECURSIVE MatchesNonApiType(_, _)
\* The loop of _is_api_request over non_api_types
MatchesNonApiType(types, content_type) ==
    IF types = <<>> THEN FALSE
    ELSE IF Contains(Lower(content_type), Head(types)) THEN TRUE
         ELSE MatchesNonApiType(Tail(types), content_type)

_is_api_request_case_sensitive(e) ==
    ~\E i \in 1..Len(non_api_types) :
        Contains(_get_response_content_type(DictGet(e, "response", <<>>)), non_api_types[i])

_is_api_request(e) ==
    ~MatchesNonApiType(non_api_types, _get_response_content_type(DictGet(e, "response", <<>>)))

RECURSIVE filter_api_requests(_)
filter_api_requests(es) ==
    IF es = <<>> THEN <<>>
    ELSE IF ~_is_api_request(Head(es)) THEN filter_api_requests(Tail(es))
         ELSE <<Head(es)>> \o filter_api_requests(Tail(es))

\* The most entries of a HAR log the filter is run on.
MaxEntries == 3

Header(name, val) == [name |-> name, value |-> val]

\* The response header lists of the entries drawn.
ResponseHeaderLists ==
    << <<>>,
       <<Header("Content-Type", "application/json; charset=utf-8")>>,
       <<Header("content-type", "text/html; charset=utf-8")>>,
       <<Header("CONTENT-TYPE", "TEXT/CSS")>>,
       <<Header("Content-Type", "image/png")>>,
       <<Header("server", "nginx"), Header("Content-Type", "Font/woff2")>>,
       <<Header("Content-Type", "video/mp4")>>,
       <<Header("Content-Type", "audio/mpeg")>>,
       <<Header("Content-Type", "application/javascript")>>,
       <<Header("Content-Type", "text/javascript; charset=UTF-8")>>,
       <<Header("X-Content-Type", "text/html")>>,
       <<Header("Content-Type", "application/json"), Header("content-type", "text/html")>>,
       <<Header("content-type", "text/css"), Header("Content-Type", "application/json")>>,
       <<Header("Content-Type", "application/x-javascript")>> >>

\* The k-th entry drawn: its URL tells it from the others, and the first has
\* no response at all.
FilterEntry(k) ==
    LET request == <<<<"method", "GET">>, <<"url", "https://x.test/r" \o ToString(k)>>>>
    IN  IF k = 1 THEN <<<<"request", request>>>>
        ELSE <<<<"request", request>>,
               <<"response", <<<<"headers", ResponseHeaderLists[k]>>>>>>>>

RECURSIVE EntryLists(_)
\* The entry lists of at most n entries
EntryLists(n) ==
    IF n = 0 THEN {<<>>}
    ELSE LET shorter == EntryLists(n - 1)
         IN  shorter \cup
                {Append(es, FilterEntry(k)) :
                    es \in {e \in shorter : Len(e) = n - 1},
                    k \in 1..Len(ResponseHeaderLists)}

InitFilter ==
    /\ pc = "filter"
    /\ entries \in EntryLists(MaxEntries)
    /\ api_requests = <<>>
    /\ entry = Unused /\ request_details = Unused /\ auth_info = Unused
    /\ RedactIdle /\ BodyIdle /\ AnalyzeIdle /\ ProjectionIdle

Filter ==
    /\ pc = "filter"
    /\ api_requests' = filter_api_requests(entries)
    /\ pc' = "done"
    /\ UNCHANGED entries
    /\ UNCHANGED <<redactVars, bodyVars, modelVars, projectionVars, analyzeVars>>

NextFilter == Filter

SpecFilter == InitFilter /\ [][NextFilter]_vars

C1_NonApiTypes ==
    {"text/html", "text/css", "image/", "font/", "video/", "audio/",
     "application/javascript", "text/javascript"}

C1_ResponseHeaders(e) ==
    IF \E i \in 1..Len(e) : e[i][1] = "response" /\ \E j \in 1..Len(e[i][2]) : e[i][2][j][1] = "headers"
    THEN LET response == e[CHOOSE i \in 1..Len(e) : e[i][1] = "response"][2]
         IN  response[CHOOSE j \in 1..Len(response) : response[j][1] = "headers"][2]
    ELSE <<>>

C1_ContentType(e) ==
    LET hs == C1_ResponseHeaders(e)
        named == {i \in 1..Len(hs) : Lower(hs[i].name) = "content-type"}
    IN  IF named = {} THEN ""
        ELSE hs[CHOOSE i \in named : \A j \in named : i <= j].value

C1_Kept(es) ==
    {i \in 1..Len(es) : \A t \in C1_NonApiTypes : ~Contains(Lower(C1_ContentType(es[i])), t)}

\* C1: filter_api_requests(entries) is exactly the order-preserving
\* subsequence of the entries whose response content-type value (of the first
\* header named content-type in any letter case, "" when there is none) does
\* not contain, in any letter case, any of the eight non-API types; an entry
\* with no content-type header is kept, and none is added, doubled or moved.
C1_FilterIsSubsequence ==
    pc = "done" =>
        LET kept == C1_Kept(entries)
        IN  /\ Len(api_requests) = Cardinality(kept)
            /\ \A j \in 1..Len(api_requests) :
                    api_requests[j] =
                        entries[CHOOSE i \in kept : Cardinality({k \in kept : k < i}) = j - 1]
            /\ \A i \in 1..Len(entries) :
                    (\A h \in 1..Len(C1_ResponseHeaders(entries[i])) :
                        Lower(C1_ResponseHeaders(entries[i])[h].name) # "content-type")
                            => i \in kept

C1_Witness ==
    /\ pc = "done"
    /\ Len(entries) = 3
    /\ C1_ResponseHeaders(entries[1]) = <<Header("CONTENT-TYPE", "TEXT/CSS")>>
    /\ C1_ResponseHeaders(entries[2]) = <<>>
    /\ C1_ResponseHeaders(entries[3]) = <<Header("Content-Type", "application/json; charset=utf-8")>>
    /\ api_requests = <<entries[2], entries[3]>>

(***************************************************************************)
(* Python values, as json.loads builds them and json.dumps renders them    *)
(***************************************************************************)

PyNone == [t |-> "None"]

PyBool(b) == [t |-> "bool", b |-> b]

PyInt(n) == [t |-> "int", n |-> n]

PyStr(str) == [t |-> "str", s |-> str]

PyList(items) == [t |-> "list", items |-> items]

\* A dict: the sequence of its <<key, value>> items, the keys plain strings
PyDict(items) == [t |-> "dict", items |-> items]

(***************************************************************************)
(* json.loads, for texts of null, true, false, integers, strings without   *)
(* escapes, arrays and objects                                             *)
(***************************************************************************)

\* The nesting depth at which the decoder gives up with RecursionError
\* (the interpreter's recursion limit, scaled down).
RecursionLimit == 3

CharAt(s, i) == IF i >= 1 /\ i <= Len(s) THEN SubSeq(s, i, i) ELSE ""

JsonWhitespace == {" ", "\t", "\n", "\r"}

Digits == "0123456789"

IsDigit(c) == c # "" /\ Contains(Digits, c)

DigitValue(c) == (CHOOSE i \in 1..Len(Digits) : SubSeq(Digits, i, i) = c) - 1

RECURSIVE SkipWs(_, _)
\* The end of the whitespace that starts at i
SkipWs(s, i) == IF CharAt(s, i) \in JsonWhitespace THEN SkipWs(s, i + 1) ELSE i

RECURSIVE DigitsEnd(_, _)
\* The end of the digits that start at i
DigitsEnd(s, i) == IF IsDigit(CharAt(s, i)) THEN DigitsEnd(s, i + 1) ELSE i

RECURSIVE ToInt(_)
\* int() of a string of digits
ToInt(ds) == IF ds = "" THEN 0 ELSE 10 * ToInt(SubSeq(ds, 1, Len(ds) - 1)) + DigitValue(SubSeq(ds, Len(ds), Len(ds)))

Parsed(val, next) == [status |-> "ok", val |-> val, next |-> next]

ParseFailed(status) == [status |-> status, val |-> PyNone, next |-> 0]

\* A string: from the quote at i to the next quote; a control character
\* inside it is an error.
ParseString(s, i) ==
    LET ends == {j \in (i + 1)..Len(s) : SubSeq(s, j, j) = "\""}
    IN  IF ends = {} THEN ParseFailed("JSONDecodeError")
        ELSE LET j == CHOOSE j \in ends : \A k \in ends : j <= k
                 str == SubSeq(s, i + 1, j - 1)
             IN  IF \E k \in 1..Len(str) : SubSeq(str, k, k) \in {"\t", "\n", "\r"}
                 THEN ParseFailed("JSONDecodeError")
                 ELSE Parsed(PyStr(str), j + 1)

\* An integer: -?(0|[1-9][0-9]*)
ParseNumber(s, i) ==
    LET neg == CharAt(s, i) = "-"
        from == IF neg THEN i + 1 ELSE i
        to == IF CharAt(s, from) = "0" THEN from + 1 ELSE DigitsEnd(s, from)
    IN  IF to = from THEN ParseFailed("JSONDecodeError")
        ELSE LET n == ToInt(SubSeq(s, from, to - 1))
             IN  Parsed(PyInt(IF neg THEN 0 - n ELSE n), to)

RECURSIVE ParseValue(_, _, _)
RECURSIVE ParseArrayItems(_, _, _, _)
RECURSIVE ParseObjectItems(_, _, _, _)

\* One value at i, at nesting depth `depth`
ParseValue(s, i, depth) ==
    LET c == CharAt(s, i)
    IN  IF depth > RecursionLimit THEN ParseFailed("RecursionError")
        ELSE IF c = "\"" THEN ParseString(s, i)
        ELSE IF c = "{"
             THEN LET j == SkipWs(s, i + 1)
                  IN  IF CharAt(s, j) = "}" THEN Parsed(PyDict(<<>>), j + 1)
                      ELSE ParseObjectItems(s, j, depth, <<>>)
        ELSE IF c = "["
             THEN LET j == SkipWs(s, i + 1)
                  IN  IF CharAt(s, j) = "]" THEN Parsed(PyList(<<>>), j + 1)
                      ELSE ParseArrayItems(s, j, depth, <<>>)
        ELSE IF Slice(s, i, i + 3) = "null" THEN Parsed(PyNone, i + 4)
        ELSE IF Slice(s, i, i + 3) = "true" THEN Parsed(PyBool(TRUE), i + 4)
        ELSE IF Slice(s, i, i + 4) = "false" THEN Parsed(PyBool(FALSE), i + 5)
        ELSE IF c = "-" \/ IsDigit(c) THEN ParseNumber(s, i)
        ELSE ParseFailed("JSONDecodeError")

\* The items of an array from i on, `acc` the items before
ParseArrayItems(s, i, depth, acc) ==
    LET item == ParseValue(s, i, depth + 1)
    IN  IF item.status # "ok" THEN item
        ELSE LET j == SkipWs(s, item.next)
             IN  IF CharAt(s, j) = "]" THEN Parsed(PyList(Append(acc, item.val)), j + 1)
                 ELSE IF CharAt(s, j) # "," THEN ParseFailed("JSONDecodeError")
                 ELSE ParseArrayItems(s, SkipWs(s, j + 1), depth, Append(acc, item.val))

\* The items of an object from i on, `acc` the items before: a repeated key
\* keeps its place and takes the last value
ParseObjectItems(s, i, depth, acc) ==
    IF CharAt(s, i) # "\"" THEN ParseFailed("JSONDecodeError")
    ELSE LET key == ParseString(s, i)
         IN  IF key.status # "ok" THEN key
             ELSE LET colon == SkipWs(s, key.next)
                  IN  IF CharAt(s, colon) # ":" THEN ParseFailed("JSONDecodeError")
                      ELSE LET item == ParseValue(s, SkipWs(s, colon + 1), depth + 1)
                           IN  IF item.status # "ok" THEN item
                               ELSE LET j == SkipWs(s, item.next)
                                        items == DictSet(acc, key.val.s, item.val)
                                    IN  IF CharAt(s, j) = "}"
                                        THEN Parsed(PyDict(items), j + 1)
                                        ELSE IF CharAt(s, j) # ","
                                             THEN ParseFailed("JSONDecodeError")
                                             ELSE ParseObjectItems(s, SkipWs(s, j + 1), depth, items)

\* json.loads(text): status "ok" with the value, or the exception raised
JsonLoads(text) ==
    LET r == ParseValue(text, SkipWs(text, 1), 1)
    IN  IF r.status # "ok" THEN r
        ELSE IF SkipWs(text, r.next) # Len(text) + 1 THEN ParseFailed("JSONDecodeError")
             ELSE r

(***************************************************************************)
(* urllib.parse.parse_qs                                                   *)
(***************************************************************************)

RECURSIVE Split(_, _)
\* str.split(sep) for a one-character sep
Split(s, sep) ==
    LET at == {i \in 1..Len(s) : SubSeq(s, i, i) = sep}
    IN  IF at = {} THEN <<s>>
        ELSE LET i == CHOOSE i \in at : \A j \in at : i <= j
             IN  <<SubSeq(s, 1, i - 1)>> \o Split(SubSeq(s, i + 1, Len(s)), sep)

\* str.split(sep, 1)
SplitOnce(s, sep) ==
    LET at == {i \in 1..Len(s) : SubSeq(s, i, i) = sep}
    IN  IF at = {} THEN <<s>>
        ELSE LET i == CHOOSE i \in at : \A j \in at : i <= j
             IN  <<SubSeq(s, 1, i - 1), SubSeq(s, i + 1, Len(s))>>

HexDigits == "0123456789abcdef"

IsHex(c) == c # "" /\ Contains(HexDigits, Lower(c))

HexValue(c) == (CHOOSE i \in 1..Len(HexDigits) : SubSeq(HexDigits, i, i) = Lower(c)) - 1

\* The printable ASCII characters of the codes 32..95 and 97..126
PrintableLow == " !\"#$%&'()*+,-./0123456789:;<=>?@ABCDEFGHIJKLMNOPQRSTUVWXYZ[\\]^_"

PrintableHigh == "abcdefghijklmnopqrstuvwxyz{|}~"

\* chr(code), for the codes of the two tables
Chr(n) ==
    IF n - 31 \in 1..Len(PrintableLow) THEN SubSeq(PrintableLow, n - 31, n - 31)
    ELSE IF n - 96 \in 1..Len(PrintableHigh) THEN SubSeq(PrintableHigh, n - 96, n - 96)
    ELSE ""

RECURSIVE Unquote(_)
\* urllib.parse.unquote: %XX becomes the character of that code (for the
\* codes of the two tables; any other escape is kept as written)
Unquote(s) ==
    IF s = "" THEN ""
    ELSE IF Head(s) = "%" /\ IsHex(CharAt(s, 2)) /\ IsHex(CharAt(s, 3))
              /\ Chr(16 * HexValue(CharAt(s, 2)) + HexValue(CharAt(s, 3))) # ""
         THEN Chr(16 * HexValue(CharAt(s, 2)) + HexValue(CharAt(s, 3)))
                \o Unquote(SubSeq(s, 4, Len(s)))
         ELSE Head(s) \o Unquote(Tail(s))

RECURSIVE ParseQsl(_)
\* parse_qsl over the fields split at "&": a field without "=", or with an
\* empty value, is skipped
ParseQsl(fields) ==
    IF fields = <<>> THEN <<>>
    ELSE LET nv == SplitOnce(Head(fields), "=")
         IN  IF Head(fields) = "" \/ Len(nv) # 2 \/ nv[2] = ""
             THEN ParseQsl(Tail(fields))
             ELSE <<<<Unquote(Replace(nv[1], "+", " ")), Unquote(Replace(nv[2], "+", " "))>>>>
                    \o ParseQsl(Tail(fields))

RECURSIVE CollectQs(_, _)
\* parse_qs: each name's values, in order, under the name
CollectQs(pairs, acc) ==
    IF pairs = <<>> THEN acc
    ELSE LET name == Head(pairs)[1]
             val == Head(pairs)[2]
         IN  CollectQs(Tail(pairs),
                IF DictHas(acc, name)
                THEN DictSet(acc, name, Append(DictGet(acc, name, <<>>), val))
                ELSE DictSet(acc, name, <<val>>))

\* parse_qs(text): name -> list of values
parse_qs(text) == CollectQs(ParseQsl(Split(text, "&")), <<>>)

\* A name -> list of strings dict as a Python value
PyDictOfLists(d) ==
    PyDict([i \in 1..Len(d) |->
        <<d[i][1], PyList([j \in 1..Len(d[i][2]) |-> PyStr(d[i][2][j])])>>])

(***************************************************************************)
(* har_parser._parse_request_body                                          *)
(***************************************************************************)

\* What a call gives back: a value returned, or an exception raised
Returned(val) == [raised |-> "", val |-> val]

Raised(exception) == [raised |-> exception, val |-> <<>>]

BodyNone == <<<<"type", "none">>, <<"content", PyStr("")>>>>

BodyOf(type, content, raw) == <<<<"type", type>>, <<"content", content>>, <<"raw", raw>>>>

_parse_request_body(pd) ==
    IF pd = <<>> THEN Returned(BodyNone)
    ELSE LET text == DictGet(pd, "text", "")
             mime_type == DictGet(pd, "mimeType", "")
             json_data == JsonLoads(text)
         IN  \* 1: try to parse JSON; only JSONDecodeError is caught
             IF Contains(mime_type, "application/json") /\ text # ""
                    /\ json_data.status = "ok"
             THEN Returned(BodyOf("json", json_data.val, text))
             ELSE IF Contains(mime_type, "application/json") /\ text # ""
                        /\ json_data.status # "JSONDecodeError"
             THEN Raised(json_data.status)
             \* 2: try to parse form data
             ELSE IF Contains(mime_type, "application/x-www-form-urlencoded") /\ text # ""
             THEN Returned(BodyOf("form", PyDictOfLists(parse_qs(text)), text))
             \* 3: the raw text
             ELSE Returned(BodyOf("text", PyStr(text), text))

\* The postData records drawn: none (an empty postData), and each MIME type
\* with each text, either of them also missing
PostDatas ==
    LET BodyMimeTypes ==
            {"application/json", "application/json; charset=utf-8",
             "application/x-www-form-urlencoded", "text/plain", "",
             "application/x-www-form-urlencoded, application/json"}
        BodyTexts ==
            {"", "{\"a\": 1}", "[1, 2]", "{\"a\": [true, null]}", "\"s\"", "-12", "{}",
             "  {\"k\":\"v\" , \"k\":false}  ", "{\"x\":{\"y\":0}}",
             "{a: 1}", "[1,", "[1,]", "{\"a\":1} x", "nul", "{\"a\" 1}", "\"a\nb\"",
             "[[[[[[1]]]]]]", "{\"a\":{\"b\":{\"c\":{\"d\":{\"e\":[]}}}}}",
             "a=1&b=2", "a=1&a=2&c", "q=x+y%21&&e=", "plain text"}
    IN  {<<>>} \cup {<<<<"mimeType", m>>>> : m \in BodyMimeTypes}
               \cup {<<<<"text", t>>>> : t \in BodyTexts}
               \cup {<<<<"mimeType", m>>, <<"text", t>>>> : m \in BodyMimeTypes, t \in BodyTexts}

InitBody ==
    /\ pc = "parse_body"
    /\ post_data \in PostDatas
    /\ body_info = Unused
    /\ entry = Unused /\ request_details = Unused /\ auth_info = Unused
    /\ RedactIdle /\ FilterIdle /\ ProjectionIdle /\ AnalyzeIdle

ParseRequestBody ==
    /\ pc = "parse_body"
    /\ body_info' = _parse_request_body(post_data)
    /\ pc' = "done"
    /\ UNCHANGED post_data
    /\ UNCHANGED <<redactVars, filterVars, modelVars, projectionVars, analyzeVars>>

NextBody == ParseRequestBody

SpecBody == InitBody /\ [][NextBody]_vars

C9_Variant(result) == DictGet(result.val, "type", "?")

C9_IsListMapping(content) ==
    /\ content.t = "dict"
    /\ \A i \in 1..Len(content.items) :
            /\ content.items[i][2].t = "list"
            /\ \A j \in 1..Len(content.items[i][2].items) :
                    content.items[i][2].items[j].t = "str"

\* C9: _parse_request_body never raises, and gives: none for no postData;
\* json, with the parsed content and the raw text, when the MIME type contains
\* application/json and the non-empty text parses; text with the raw payload
\* when it contains application/json and the text does not parse; form, with
\* a key -> list-of-values mapping, when it contains
\* application/x-www-form-urlencoded and the text is non-empty; text with the
\* raw payload for every other postData, an empty text included.
C9_BodyVariants ==
    pc = "done" =>
        LET text == DictGet(post_data, "text", "")
            mime == DictGet(post_data, "mimeType", "")
            isJson == Contains(mime, "application/json")
            isForm == Contains(mime, "application/x-www-form-urlencoded")
            rawText == /\ C9_Variant(body_info) = "text"
                       /\ DictGet(body_info.val, "raw", "?") = text
                       /\ DictGet(body_info.val, "content", "?") = PyStr(text)
        IN  /\ body_info.raised = ""
            /\ IF post_data = <<>> THEN C9_Variant(body_info) = "none"
               ELSE IF isJson /\ text # "" /\ JsonLoads(text).status = "ok"
               THEN /\ C9_Variant(body_info) = "json"
                    /\ DictGet(body_info.val, "content", "?") = JsonLoads(text).val
                    /\ DictGet(body_info.val, "raw", "?") = text
               ELSE IF isJson /\ text # "" THEN rawText
               ELSE IF isForm /\ text # ""
               THEN /\ C9_Variant(body_info) = "form"
                    /\ C9_IsListMapping(DictGet(body_info.val, "content", "?"))
                    /\ DictGet(body_info.val, "raw", "?") = text
               ELSE rawText

(***************************************************************************)
(* urllib.parse.urlparse, for URLs without brackets, ";" and control       *)
(* characters                                                              *)
(***************************************************************************)

\* str.find(c) for a one-character c: the first position, or 0
Find(s, c) ==
    LET at == {i \in 1..Len(s) : SubSeq(s, i, i) = c}
    IN  IF at = {} THEN 0 ELSE CHOOSE i \in at : \A j \in at : i <= j

\* The first position from `from` on of one of the characters of cs, or Len(s) + 1
FindAny(s, cs, from) ==
    LET at == {i \in from..Len(s) : Contains(cs, SubSeq(s, i, i))}
    IN  IF at = {} THEN Len(s) + 1 ELSE CHOOSE i \in at : \A j \in at : i <= j

UrlParse(url) ==
    LET SchemeChars == LowerLetters \o UpperLetters \o "0123456789+-."
        colon == Find(url, ":")
        hasScheme == /\ colon > 1
                     /\ Contains(LowerLetters, LowerChar(Head(url)))
                     /\ \A i \in 1..(colon - 1) : Contains(SchemeChars, SubSeq(url, i, i))
        scheme == IF hasScheme THEN Lower(SubSeq(url, 1, colon - 1)) ELSE ""
        rest == IF hasScheme THEN SubSeq(url, colon + 1, Len(url)) ELSE url
        hasNetloc == Slice(rest, 1, 2) = "//"
        delim == FindAny(rest, "/?#", 3)
        netloc == IF hasNetloc THEN SubSeq(rest, 3, delim - 1) ELSE ""
        afterNetloc == IF hasNetloc THEN SubSeq(rest, delim, Len(rest)) ELSE rest
        noFragment == SplitOnce(afterNetloc, "#")[1]
    IN  [scheme |-> scheme, netloc |-> netloc, path |-> SplitOnce(noFragment, "?")[1]]

(***************************************************************************)
(* har_parser._extract_path_parameters                                     *)
(***************************************************************************)

RECURSIVE BraceParams(_, _)
\* re.findall(r'\{([^}]+)\}', path) from position i on: from a "{" to the next
\* "}", with at least one character between
BraceParams(path, i) ==
    IF i > Len(path) THEN {}
    ELSE LET close == FindAny(path, "}", i + 1)
         IN  IF CharAt(path, i) = "{" /\ close <= Len(path) /\ close > i + 1
             THEN {SubSeq(path, i + 1, close - 1)} \cup BraceParams(path, close + 1)
             ELSE BraceParams(path, i + 1)

RECURSIVE ColonParams(_, _)
\* re.findall(r':([^/]+)', path) from position i on: from a ":" to the next
\* "/" or the end, with at least one character between
ColonParams(path, i) ==
    IF i > Len(path) THEN {}
    ELSE LET stop == FindAny(path, "/", i + 1)
         IN  IF CharAt(path, i) = ":" /\ stop > i + 1
             THEN {SubSeq(path, i + 1, stop - 1)} \cup ColonParams(path, stop)
             ELSE ColonParams(path, i + 1)

\* list(set(params)): the names, in no order
_extract_path_parameters(path) == BraceParams(path, 1) \cup ColonParams(path, 1)

(***************************************************************************)
(* har_parser.extract_request_details                                      *)
(***************************************************************************)

RECURSIVE QueryParams(_, _)
\* {param.name: param.value for param in query_string}
QueryParams(query_string, acc) ==
    IF query_string = <<>> THEN acc
    ELSE QueryParams(Tail(query_string),
                     DictSet(acc, Head(query_string).name, Head(query_string).value))

skipped_headers == {"host", ":authority", ":method", ":path", ":scheme", ":status"}

RECURSIVE HeaderDict_exact_names(_, _)
HeaderDict_exact_names(headers, acc) ==
    IF headers = <<>> THEN acc
    ELSE IF Head(headers).name \in skipped_headers
         THEN HeaderDict_exact_names(Tail(headers), acc)
         ELSE HeaderDict_exact_names(Tail(headers),
                                     DictSet(acc, Head(headers).name, Head(headers).value))

RECURSIVE HeaderDict(_, _)
\* The header loop: pseudo-headers and Host are skipped, a repeated name takes
\* the last value
HeaderDict(headers, acc) ==
    IF headers = <<>> THEN acc
    ELSE IF StartsWith(Head(headers).name, ":") \/ Lower(Head(headers).name) \in skipped_headers
         THEN HeaderDict(Tail(headers), acc)
         ELSE HeaderDict(Tail(headers), DictSet(acc, Head(headers).name, Head(headers).value))

\* The model, or the exception _parse_request_body raised
extract_request_details(e) ==
    LET request == DictGet(e, "request", <<>>)
        method == DictGet(request, "method", "")
        url == DictGet(request, "url", "")
        headers == DictGet(request, "headers", <<>>)
        query_string == DictGet(request, "queryString", <<>>)
        pd == DictGet(request, "postData", <<>>)
        parsed_url == UrlParse(url)
        body == _parse_request_body(pd)
    IN  IF body.raised # "" THEN body
        ELSE Returned([method |-> method,
                       url |-> url,
                       path |-> parsed_url.path,
                       host |-> parsed_url.netloc,
                       scheme |-> parsed_url.scheme,
                       headers |-> HeaderDict(headers, <<>>),
                       query_params |-> QueryParams(query_string, <<>>),
                       path_params |-> _extract_path_parameters(parsed_url.path),
                       body |-> body.val])

MaxRequestHeaders == 2

\* The entries drawn: a list of at most n headers (HTTP/2 pseudo-headers, Host
\* in several cases, a name that only begins with "host", ordinary names; a
\* name may be repeated) put into one of three requests, the last with a body
\* too deep for the JSON decoder
ExtractEntries(n) ==
    LET names == {":authority", ":x", "Host", "HOST", "Authorization", "accept", "hostname"}
        drawn == {Header(name, val) : name \in names, val \in {"v1", "v2"}}
        lists == UNION {[1..k -> drawn] : k \in 0..n}
        rests ==
            { << <<"method", "GET">>,
                 <<"url", "https://api.example.com/users/{id}?x=1">>,
                 <<"queryString", <<Header("x", "1")>> >> >>,
              << <<"method", "POST">>,
                 <<"url", "http://h/a/:id">>,
                 <<"queryString", <<>> >>,
                 <<"postData", << <<"mimeType", "application/json">>,
                                  <<"text", "{\"a\": 1}">> >> >> >>,
              << <<"method", "POST">>,
                 <<"url", "/upload">>,
                 <<"postData", << <<"mimeType", "application/json">>,
                                  <<"text", "[[[[[[[1]]]]]]]">> >> >> >> }
    IN  {<< <<"request", DictSet(rest, "headers", headers)>> >> :
            rest \in rests, headers \in lists}

InitExtract ==
    /\ pc = "extract"
    /\ entry \in ExtractEntries(MaxRequestHeaders)
    /\ request_details = Unused /\ auth_info = Unused
    /\ RedactIdle /\ FilterIdle /\ BodyIdle /\ AnalyzeIdle /\ ProjectionIdle

ExtractRequestDetails ==
    /\ pc = "extract"
    /\ request_details' = extract_request_details(entry)
    /\ pc' = "extracted"
    /\ UNCHANGED <<entry, auth_info>>
    /\ UNCHANGED <<redactVars, filterVars, bodyVars, projectionVars, analyzeVars>>

NextExtract == ExtractRequestDetails

SpecExtract == InitExtract /\ [][NextExtract]_vars

C2_CapturedNames ==
    LET captured == DictGet(DictGet(entry, "request", <<>>), "headers", <<>>)
    IN  {captured[i].name : i \in DOMAIN captured}

C2_Keys ==
    LET headers == request_details.val.headers
    IN  {headers[i][1] : i \in DOMAIN headers}

C2_Excluded(name) == StartsWith(name, ":") \/ Lower(name) = "host"

\* C2: the headers mapping of extract_request_details(entry) has no key that
\* starts with ":" and no key equal, ignoring letter case, to "host"; every
\* other captured request header name is a key of the mapping.
C2_HeadersWithoutHostAndPseudo ==
    (pc = "extracted" /\ request_details.raised = "") =>
        /\ \A key \in C2_Keys : ~C2_Excluded(key)
        /\ \A name \in C2_CapturedNames : ~C2_Excluded(name) => name \in C2_Keys

\* A capture of an upper-case HOST and of accept: only accept is kept
C2_Witness ==
    /\ pc = "extracted" /\ request_details.raised = ""
    /\ C2_CapturedNames = {"HOST", "accept"}
    /\ C2_Keys = {"accept"}

(***************************************************************************)
(* curl_generator.generate_curl_command                                    *)
(***************************************************************************)

\* value.replace("'", "'\"'\"'")
EscapeSingleQuotes(s) == Replace(s, "'", "'\"'\"'")

RECURSIVE Join(_, _)
\* sep.join(parts)
Join(parts, sep) ==
    IF parts = <<>> THEN ""
    ELSE IF Len(parts) = 1 THEN Head(parts)
    ELSE Head(parts) \o sep \o Join(Tail(parts), sep)

RECURSIVE HeaderParts_reversed(_)
HeaderParts_reversed(headers) ==
    IF headers = <<>> THEN <<>>
    ELSE IF StartsWith(Head(headers).name, ":") THEN HeaderParts_reversed(Tail(headers))
    ELSE HeaderParts_reversed(Tail(headers))
             \o <<"-H '" \o Head(headers).name \o ": "
                    \o EscapeSingleQuotes(Head(headers).value) \o "'">>

RECURSIVE HeaderParts(_)
\* The header loop: one -H part for each header that is not a pseudo-header
HeaderParts(headers) ==
    IF headers = <<>> THEN <<>>
    ELSE IF StartsWith(Head(headers).name, ":") THEN HeaderParts(Tail(headers))
    ELSE <<"-H '" \o Head(headers).name \o ": "
              \o EscapeSingleQuotes(Head(headers).value) \o "'">>
             \o HeaderParts(Tail(headers))

generate_curl_command(e) ==
    LET request == DictGet(e, "request", <<>>)
        method == DictGet(request, "method", "GET")
        url == DictGet(request, "url", "")
        headers == DictGet(request, "headers", <<>>)
        pd == DictGet(request, "postData", <<>>)
        text == IF pd # <<>> THEN DictGet(pd, "text", "") ELSE ""
        parts == <<"curl '" \o url \o "'">>
                    \o (IF method # "GET" THEN <<"-X " \o method>> ELSE <<>>)
                    \o HeaderParts(headers)
                    \o (IF text # ""
                        THEN <<"--data-raw '" \o EscapeSingleQuotes(text) \o "'">>
                        ELSE <<>>)
    IN  Join(parts, " \\\n  ")

\* The entries drawn: a request line (the first without a method), a list of
\* at most n headers (a header may be repeated) and a postData, "-" standing
\* for a request without one
CurlEntries(n) ==
    LET drawn == {Header(name, val) : name \in {":path", "Authorization", "accept", "Accept"},
                                      val \in {"Bearer 1234567890", "it's"}}
        lists == UNION {[1..k -> drawn] : k \in 0..n}
        request_lines ==
            { << <<"url", "https://x.test/a?b=1">> >>,
              << <<"method", "GET">>, <<"url", "https://x.test/a?b=1">> >>,
              << <<"method", "get">>, <<"url", "https://x.test/a?b=1">> >>,
              << <<"method", "POST">>, <<"url", "https://x.test/a?b=1">> >>,
              << <<"method", "GET">>, <<"url", "https://x.test/it's">> >>,
              << <<"method", "DELETE">>, <<"url", "">> >> }
        post_datas ==
            { "-",
              <<>>,
              << <<"mimeType", "text/plain">>, <<"text", "">> >>,
              << <<"mimeType", "application/json">> >>,
              << <<"mimeType", "application/json">>, <<"text", "{\"a\": 1}">> >>,
              << <<"text", "a'b">> >> }
    IN  {<< <<"request",
              IF pd = "-" THEN DictSet(line, "headers", headers)
              ELSE DictSet(DictSet(line, "headers", headers), "postData", pd)>> >> :
            line \in request_lines, headers \in lists, pd \in post_datas}

InitCurl ==
    /\ pc = "curl"
    /\ entry \in CurlEntries(MaxRequestHeaders)
    /\ request_details = Unused /\ auth_info = Unused
    /\ curl_command = Unused
    /\ language = Unused /\ code = Unused /\ format_type = Unused /\ documentation = Unused
    /\ RedactIdle /\ FilterIdle /\ BodyIdle /\ AnalyzeIdle

GenerateCurlCommand ==
    /\ pc = "curl"
    /\ curl_command' = generate_curl_command(entry)
    /\ pc' = "curl_generated"
    /\ UNCHANGED <<language, code, format_type, documentation>>
    /\ UNCHANGED <<redactVars, filterVars, bodyVars, modelVars, analyzeVars>>

NextCurl == GenerateCurlCommand

SpecCurl == InitCurl /\ [][NextCurl]_vars

RECURSIVE C10_SplitOn(_, _)
\* The pieces of s between the occurrences of sep
C10_SplitOn(s, sep) ==
    LET at == {i \in 1..(Len(s) - Len(sep) + 1) : SubSeq(s, i, i + Len(sep) - 1) = sep}
    IN  IF at = {} THEN <<s>>
        ELSE LET i == CHOOSE i \in at : \A j \in at : i <= j
             IN  <<SubSeq(s, 1, i - 1)>> \o C10_SplitOn(SubSeq(s, i + Len(sep), Len(s)), sep)

C10_Request == DictGet(entry, "request", <<>>)

C10_Method == DictGet(C10_Request, "method", "GET")

C10_Text ==
    LET pd == DictGet(C10_Request, "postData", <<>>)
    IN  IF pd = <<>> THEN "" ELSE DictGet(pd, "text", "")

C10_NotPseudo(header) == ~StartsWith(header.name, ":")

C10_KeptHeaders == SelectSeq(DictGet(C10_Request, "headers", <<>>), C10_NotPseudo)

C10_Count(condition) == IF condition THEN 1 ELSE 0

C10_GetWithAuthorization ==
    << <<"request", << <<"method", "GET">>,
                       <<"url", "https://x.test/a?b=1">>,
                       <<"headers", <<Header("Authorization", "Bearer 1234567890")>> >> >> >> >>

\* C10: generate_curl_command(entry) is these parts, in this order, joined by
\* space-backslash-newline-two-spaces: curl '<url>' first; -X <METHOD> if and
\* only if the method is not GET; one -H 'name: value' for each request header
\* whose name does not start with ":", in the capture order and with the names
\* verbatim; --data-raw last, if and only if postData has non-empty text.  For
\* a GET entry with one Authorization header and no body the output is exactly
\* the curl line followed by the single -H line.
C10_CurlParts ==
    pc = "curl_generated" =>
        LET parts == C10_SplitOn(curl_command, " \\\n  ")
            kept == C10_KeptHeaders
            hasMethod == C10_Method # "GET"
            hasBody == C10_Text # ""
            beforeHeaders == 1 + C10_Count(hasMethod)
        IN  /\ Len(parts) = beforeHeaders + Len(kept) + C10_Count(hasBody)
            /\ parts[1] = "curl '" \o DictGet(C10_Request, "url", "") \o "'"
            /\ hasMethod => parts[2] = "-X " \o C10_Method
            /\ ~hasMethod => \A i \in DOMAIN parts : ~StartsWith(parts[i], "-X ")
            /\ \A k \in DOMAIN kept :
                   LET part == parts[beforeHeaders + k]
                   IN  /\ StartsWith(part, "-H '" \o kept[k].name \o ": ")
                       /\ ~Contains(kept[k].value, "'") =>
                              part = "-H '" \o kept[k].name \o ": " \o kept[k].value \o "'"
            /\ hasBody => StartsWith(parts[Len(parts)], "--data-raw '")
            /\ ~hasBody => \A i \in DOMAIN parts : ~StartsWith(parts[i], "--data-raw")
            /\ entry = C10_GetWithAuthorization =>
                   curl_command =
                       "curl 'https://x.test/a?b=1' \\\n  -H 'Authorization: Bearer 1234567890'"

\* A POST with a pseudo-header, two kept headers and a body: four parts follow
\* the curl line
C10_Witness ==
    /\ pc = "curl_generated"
    /\ C10_Method = "POST"
    /\ DictGet(C10_Request, "headers", <<>>)
           = <<Header(":path", "it's"), Header("accept", "it's")>>
    /\ C10_Text = "a'b"
    /\ curl_command = "curl 'https://x.test/a?b=1' \\\n  -X POST \\\n  "
                          \o "-H 'accept: it'\"'\"'s' \\\n  --data-raw 'a'\"'\"'b'"

(***************************************************************************)
(* json.dumps(obj, indent=2)                                               *)
(***************************************************************************)

\* The grave accent, which a TLA+ string cannot hold: the form feed, which no
\* text drawn holds, stands for it
Backtick == "\f"

\* The one-character escapes of the encoder
JsonEscapeChar(c) ==
    IF c = "\"" THEN "\\\""
    ELSE IF c = "\\" THEN "\\\\"
    ELSE IF c = "\n" THEN "\\n"
    ELSE IF c = "\r" THEN "\\r"
    ELSE IF c = "\t" THEN "\\t"
    ELSE c

RECURSIVE JsonEscape(_)
JsonEscape(s) == IF s = "" THEN "" ELSE JsonEscapeChar(Head(s)) \o JsonEscape(Tail(s))

JsonString(s) == "\"" \o JsonEscape(s) \o "\""

\* bool(obj): None, False, 0, "", [] and {} are false
Truthy(obj) ==
    CASE obj.t = "None" -> FALSE
      [] obj.t = "bool" -> obj.b
      [] obj.t = "int" -> obj.n # 0
      [] obj.t = "str" -> obj.s # ""
      [] obj.t = "list" -> obj.items # <<>>
      [] obj.t = "dict" -> obj.items # <<>>

RECURSIVE JsonDumps(_, _)
RECURSIVE JsonDumpsItems(_, _, _)
\* The items of a list (isDict false) or of a dict, each on a line of its own
\* at the given nesting level, separated by commas
JsonDumpsItems(items, isDict, level) ==
    LET item == Head(items)
        line == Repeat("  ", level)
                    \o (IF isDict
                        THEN JsonString(item[1]) \o ": " \o JsonDumps(item[2], level)
                        ELSE JsonDumps(item, level))
    IN  IF Len(items) = 1 THEN line
        ELSE line \o ",\n" \o JsonDumpsItems(Tail(items), isDict, level)

\* obj rendered at the given nesting level
JsonDumps(obj, level) ==
    CASE obj.t = "None" -> "null"
      [] obj.t = "bool" -> (IF obj.b THEN "true" ELSE "false")
      [] obj.t = "int" -> ToString(obj.n)
      [] obj.t = "str" -> JsonString(obj.s)
      [] obj.t = "list" ->
            IF obj.items = <<>> THEN "[]"
            ELSE "[\n" \o JsonDumpsItems(obj.items, FALSE, level + 1)
                       \o "\n" \o Repeat("  ", level) \o "]"
      [] obj.t = "dict" ->
            IF obj.items = <<>> THEN "{}"
            ELSE "{\n" \o JsonDumpsItems(obj.items, TRUE, level + 1)
                       \o "\n" \o Repeat("  ", level) \o "}"

\* A str -> str dict as a Python value
PyDictOfStrs(d) == PyDict([i \in 1..Len(d) |-> <<d[i][1], PyStr(d[i][2])>>])

(***************************************************************************)
(* code_generator                                                          *)
(***************************************************************************)

\* mapping.get(key, default) of a dict with a fixed set of keys, a record
Get(mapping, key, default) == IF key \in DOMAIN mapping THEN mapping[key] ELSE default

\* None where a body type is looked up: no body type is this string
None == "None"

\* body_info.get("type")
BodyType(body) == DictGet(body, "type", None)

\* The upper-case letter of each lower-case letter
ToUpper ==
    [c \in {SubSeq(LowerLetters, i, i) : i \in 1..Len(LowerLetters)} |->
        LET i == CHOOSE i \in 1..Len(LowerLetters) : SubSeq(LowerLetters, i, i) = c
        IN  SubSeq(UpperLetters, i, i)]

UpperChar(c) == IF c \in DOMAIN ToUpper THEN ToUpper[c] ELSE c

RECURSIVE Upper(_)
\* str.upper()
Upper(s) == IF s = "" THEN "" ELSE UpperChar(Head(s)) \o Upper(Tail(s))

_format_dict(data) == IF ~Truthy(data) THEN "{}" ELSE JsonDumps(data, 0)

_build_python_body(body) ==
    LET body_type == DictGet(body, "type", "none")
    IN  IF body_type = "none" THEN <<>>
        ELSE IF body_type = "json"
        THEN <<"# Request body",
               "data = " \o _format_dict(DictGet(body, "content", PyDict(<<>>)))>>
        ELSE IF body_type = "form"
        THEN <<"# Request body (form data)",
               "data = " \o _format_dict(DictGet(body, "content", PyDict(<<>>)))>>
        ELSE <<"# Request body",
               "data = \"\"\"" \o DictGet(body, "raw", "") \o "\"\"\"">>

_generate_python_code(details) ==
    LET method == Lower(Get(details, "method", "GET"))
        url == Get(details, "url", "")
        headers == Get(details, "headers", <<>>)
        query_params == Get(details, "query_params", <<>>)
        body == Get(details, "body", <<>>)
        body_lines == _build_python_body(body)
        request_parts ==
            <<"'" \o url \o "'">>
                \o (IF query_params # <<>> THEN <<"params=params">> ELSE <<>>)
                \o (IF headers # <<>> THEN <<"headers=headers">> ELSE <<>>)
                \o (IF BodyType(body) # "none"
                    THEN IF BodyType(body) = "json" THEN <<"json=data">> ELSE <<"data=data">>
                    ELSE <<>>)
        lines ==
            <<"import requests", "">>
                \o (IF query_params # <<>>
                    THEN <<"# Query parameters",
                           "params = " \o _format_dict(PyDictOfStrs(query_params)),
                           "">>
                    ELSE <<>>)
                \o (IF headers # <<>>
                    THEN <<"# Headers",
                           "headers = " \o _format_dict(PyDictOfStrs(headers)),
                           "">>
                    ELSE <<>>)
                \o (IF body_lines # <<>> THEN body_lines \o <<"">> ELSE <<>>)
                \o <<"# Make request",
                     "response = requests." \o method
                         \o "(" \o Join(request_parts, ", ") \o ")",
                     "",
                     "# Handle response",
                     "print(f'Status: {response.status_code}')",
                     "print(f'Response: {response.text}')">>
    IN  IF url = "" THEN "# Error: No URL provided in request details"
        ELSE Join(lines, "\n")

_build_javascript_body(body) ==
    LET body_type == DictGet(body, "type", "none")
    IN  IF body_type = "none" THEN <<>>
        ELSE IF body_type = "json"
        THEN <<"// Request body",
               "const body = JSON.stringify("
                   \o _format_dict(DictGet(body, "content", PyDict(<<>>))) \o ");">>
        ELSE IF body_type = "form"
        THEN <<"// Request body (form data)",
               "const body = new URLSearchParams("
                   \o _format_dict(DictGet(body, "content", PyDict(<<>>))) \o ");">>
        ELSE <<"// Request body",
               "const body = " \o Backtick \o DictGet(body, "raw", "") \o Backtick \o ";">>

_generate_javascript_code(details) ==
    LET method == Upper(Get(details, "method", "GET"))
        url == Get(details, "url", "")
        headers == Get(details, "headers", <<>>)
        query_params == Get(details, "query_params", <<>>)
        body == Get(details, "body", <<>>)
        body_lines == _build_javascript_body(body)
        options ==
            (IF method # "GET" THEN <<"method: '" \o method \o "'">> ELSE <<>>)
                \o (IF headers # <<>> THEN <<"headers: headers">> ELSE <<>>)
                \o (IF BodyType(body) # "none" THEN <<"body: body">> ELSE <<>>)
        fetch_parts ==
            <<"url">>
                \o (IF options # <<>> THEN <<"{" \o Join(options, ", ") \o "}">> ELSE <<>>)
        lines ==
            (IF query_params # <<>>
             THEN <<"// Query parameters",
                    "const params = " \o _format_dict(PyDictOfStrs(query_params)) \o ";",
                    "const url = new URL('" \o url \o "');",
                    "Object.keys(params).forEach(key => url.searchParams.append(key, params[key]));",
                    "">>
             ELSE <<"const url = '" \o url \o "';", "">>)
                \o (IF headers # <<>>
                    THEN <<"// Headers",
                           "const headers = " \o _format_dict(PyDictOfStrs(headers)) \o ";",
                           "">>
                    ELSE <<>>)
                \o (IF body_lines # <<>> THEN body_lines \o <<"">> ELSE <<>>)
                \o <<"// Make request",
                     "fetch(" \o Join(fetch_parts, ", ") \o ")",
                     "  .then(response => response.json())",
                     "  .then(data => console.log(data))",
                     "  .catch(error => console.error('Error:', error));">>
    IN  IF url = "" THEN "// Error: No URL provided in request details"
        ELSE Join(lines, "\n")

_build_go_body(body) ==
    LET body_type == DictGet(body, "type", "none")
    IN  IF body_type = "none" THEN <<>>
        ELSE IF body_type = "json"
        THEN <<"    // Request body",
               "    body := strings.NewReader(" \o Backtick
                   \o _format_dict(DictGet(body, "content", PyDict(<<>>)))
                   \o Backtick \o ")">>
        ELSE IF body_type = "form"
        THEN <<"    // Request body (form data)",
               "    body := strings.NewReader(" \o Backtick
                   \o _format_dict(DictGet(body, "content", PyDict(<<>>)))
                   \o Backtick \o ")">>
        ELSE <<"    // Request body",
               "    body := strings.NewReader(" \o Backtick
                   \o DictGet(body, "raw", "") \o Backtick \o ")">>

\* One line for each item of the dict, in its order
GoSetLines(prefix, d) ==
    [i \in 1..Len(d) |-> prefix \o "(\"" \o d[i][1] \o "\", \"" \o d[i][2] \o "\")"]

_generate_go_code(details) ==
    LET method == Upper(Get(details, "method", "GET"))
        url == Get(details, "url", "")
        headers == Get(details, "headers", <<>>)
        query_params == Get(details, "query_params", <<>>)
        body == Get(details, "body", <<>>)
        body_lines == _build_go_body(body)
        lines ==
            <<"package main",
              "",
              "import (",
              "    \"fmt\"",
              "    \"io\"",
              "    \"net/http\"",
              "    \"net/url\"",
              "    \"strings\"",
              ")",
              "",
              "func main() {",
              "    // Create HTTP client",
              "    client := &http.Client{}",
              "">>
                \o (IF query_params # <<>>
                    THEN <<"    // Query parameters",
                           "    baseURL := \"" \o url \o "\"",
                           "    u, _ := url.Parse(baseURL)",
                           "    q := u.Query()">>
                             \o GoSetLines("    q.Set", query_params)
                             \o <<"    u.RawQuery = q.Encode()", "">>
                    ELSE <<"    requestURL := \"" \o url \o "\"", "">>)
                \o (IF body_lines # <<>> THEN body_lines \o <<"">> ELSE <<>>)
                \o <<"    // Create request",
                     IF BodyType(body) # "none"
                     THEN "    req, _ := http.NewRequest(\"" \o method \o "\", requestURL, body)"
                     ELSE "    req, _ := http.NewRequest(\"" \o method \o "\", requestURL, nil)">>
                \o (IF headers # <<>>
                    THEN <<"    // Headers">>
                             \o GoSetLines("    req.Header.Set", headers) \o <<"">>
                    ELSE <<>>)
                \o <<"    // Execute request",
                     "    resp, err := client.Do(req)",
                     "    if err != nil {",
                     "        panic(err)",
                     "    }",
                     "    defer resp.Body.Close()",
                     "",
                     "    // Read response",
                     "    body, _ := io.ReadAll(resp.Body)",
                     "    fmt.Printf(\"Status: %s\\n\", resp.Status)",
                     "    fmt.Printf(\"Response: %s\\n\", string(body))",
                     "}">>
    IN  IF url = "" THEN "// Error: No URL provided in request details"
        ELSE Join(lines, "\n")

\* A dispatcher that falls back to Python for an unknown tag
generate_code_defaults_to_python(details, lang) ==
    IF lang = "javascript" THEN Returned(_generate_javascript_code(details))
    ELSE IF lang = "go" THEN Returned(_generate_go_code(details))
    ELSE Returned(_generate_python_code(details))

\* A dispatcher that fails hard on a model without a URL
generate_code_requires_url(details, lang) ==
    IF lang \notin {"python", "javascript", "go"} \/ Get(details, "url", "") = ""
    THEN Raised("ValueError")
    ELSE IF lang = "python" THEN Returned(_generate_python_code(details))
    ELSE IF lang = "javascript" THEN Returned(_generate_javascript_code(details))
    ELSE Returned(_generate_go_code(details))

generate_code(details, lang) ==
    IF lang = "python" THEN Returned(_generate_python_code(details))
    ELSE IF lang = "javascript" THEN Returned(_generate_javascript_code(details))
    ELSE IF lang = "go" THEN Returned(_generate_go_code(details))
    ELSE Raised("ValueError")

(***************************************************************************)
(* doc_generator                                                           *)
(***************************************************************************)

RECURSIVE TitleFrom(_, _)
\* The rest of str.title(): a letter after a letter is lowered, any other
\* letter is raised
TitleFrom(s, afterLetter) ==
    IF s = "" THEN ""
    ELSE (IF afterLetter THEN LowerChar(Head(s)) ELSE UpperChar(Head(s)))
             \o TitleFrom(Tail(s), Head(s) \in DOMAIN ToLower \cup DOMAIN ToUpper)

\* str.title()
Title(s) == TitleFrom(s, FALSE)

\* [{"name": k, "value": v} for k, v in mapping.items()]
HeaderList(d) == [i \in 1..Len(d) |-> Header(d[i][1], d[i][2])]

\* The mock entry, whose postData is the body of the model
_generate_curl_example(details) ==
    generate_curl_command(
        << <<"request",
             << <<"method", Get(details, "method", "GET")>>,
                <<"url", Get(details, "url", "")>>,
                <<"headers", HeaderList(Get(details, "headers", <<>>))>>,
                <<"queryString", HeaderList(Get(details, "query_params", <<>>))>>,
                <<"postData", Get(details, "body", <<>>)>> >> >> >>)

\* One table line for each item of the dict, in its order
ParameterLines(d) ==
    [i \in 1..Len(d) |->
        "| " \o Backtick \o d[i][1] \o Backtick \o " | string | No | Example: "
             \o Backtick \o d[i][2] \o Backtick \o " |"]

HeaderLines(d) ==
    [i \in 1..Len(d) |->
        "| " \o Backtick \o d[i][1] \o Backtick \o " | "
             \o Backtick \o d[i][2] \o Backtick \o " |"]

CodeFence == Backtick \o Backtick \o Backtick

_generate_markdown_doc(details, auth) ==
    LET method == Get(details, "method", "GET")
        url == Get(details, "url", "")
        path == Get(details, "path", "")
        headers == Get(details, "headers", <<>>)
        query_params == Get(details, "query_params", <<>>)
        body == Get(details, "body", <<>>)
        lines ==
            <<"# API Documentation",
              "",
              "## " \o method \o " " \o path,
              "",
              "**URL:** " \o Backtick \o url \o Backtick,
              "",
              "### Description",
              "",
              "This endpoint was reverse-engineered from a HAR file capture.",
              "">>
                \o (IF Get(auth, "type", None) # "none"
                    THEN <<"### Authentication",
                           "",
                           "**Type:** " \o Title(Replace(Get(auth, "type", "none"), "_", " ")),
                           "**Location:** " \o Get(auth, "location", "none"),
                           "">>
                             \o (IF Get(auth, "redacted_value", "") # ""
                                 THEN <<"**Example:**",
                                        CodeFence,
                                        Get(auth, "redacted_value", ""),
                                        CodeFence,
                                        "">>
                                 ELSE <<>>)
                    ELSE <<>>)
                \o (IF query_params # <<>>
                    THEN <<"### Query Parameters",
                           "",
                           "| Parameter | Type | Required | Description |",
                           "|-----------|------|----------|-------------|">>
                             \o ParameterLines(query_params) \o <<"">>
                    ELSE <<>>)
                \o (IF headers # <<>>
                    THEN <<"### Headers",
                           "",
                           "| Header | Value |",
                           "|--------|-------|">>
                             \o HeaderLines(headers) \o <<"">>
                    ELSE <<>>)
                \o (IF BodyType(body) # "none"
                    THEN <<"### Request Body",
                           "",
                           "**Content Type:** " \o DictGet(body, "type", "text"),
                           "">>
                             \o (IF BodyType(body) = "json"
                                 THEN <<"**Example:**",
                                        CodeFence \o "json",
                                        JsonDumps(DictGet(body, "content", PyDict(<<>>)), 0),
                                        CodeFence,
                                        "">>
                                 ELSE <<"**Example:**",
                                        CodeFence,
                                        DictGet(body, "raw", ""),
                                        CodeFence,
                                        "">>)
                    ELSE <<>>)
                \o <<"### cURL Example",
                     "",
                     CodeFence \o "bash",
                     _generate_curl_example(details),
                     CodeFence,
                     "",
                     "### Response",
                     "",
                     "The API returns a JSON response with the requested data.",
                     "",
                     "**Example Response:**",
                     CodeFence \o "json",
                     "{",
                     "  \"status\": \"success\",",
                     "  \"data\": {",
                     "    \"message\": \"Request successful\"",
                     "  }",
                     "}",
                     CodeFence,
                     "">>
    IN  Join(lines, "\n")

_build_openapi_parameters(query_params) ==
    PyList([i \in 1..Len(query_params) |->
        PyDict(<< <<"name", PyStr(query_params[i][1])>>,
                  <<"in", PyStr("query")>>,
                  <<"required", PyBool(FALSE)>>,
                  <<"schema", PyDict(<< <<"type", PyStr("string")>> >>)>>,
                  <<"example", PyStr(query_params[i][2])>> >>)])

\* A request body that is always declared as application/json
_build_openapi_request_body_json_only(body) ==
    IF BodyType(body) = "none" THEN PyNone
    ELSE PyDict(<<
            <<"required", PyBool(TRUE)>>,
            <<"content",
              PyDict(<< <<"application/json",
                          PyDict(<<
                            <<"schema",
                              PyDict(<< <<"type",
                                          PyStr(IF BodyType(body) = "json"
                                                THEN "object" ELSE "string")>> >>)>>,
                            <<"example", DictGet(body, "content", PyDict(<<>>))>> >>)>> >>)>> >>)

_build_openapi_request_body(body) ==
    LET content_type ==
            IF BodyType(body) = "form" THEN "application/x-www-form-urlencoded"
            ELSE IF BodyType(body) = "text" THEN "text/plain"
            ELSE "application/json"
    IN  IF BodyType(body) = "none" THEN PyNone
        ELSE PyDict(<<
                <<"required", PyBool(TRUE)>>,
                <<"content",
                  PyDict(<< <<content_type,
                              PyDict(<<
                                <<"schema",
                                  PyDict(<< <<"type",
                                              PyStr(IF BodyType(body) = "json"
                                                    THEN "object" ELSE "string")>> >>)>>,
                                <<"example", DictGet(body, "content", PyDict(<<>>))>> >>)>> >>)>> >>)

\* Security schemes whose API key is always declared in the header
_build_security_schemes_header_only(auth) ==
    LET auth_type == Get(auth, "type", "none")
    IN  IF auth_type = "bearer_token"
        THEN PyDict(<< <<"bearer_token",
                         PyDict(<< <<"type", PyStr("http")>>,
                                   <<"scheme", PyStr("bearer")>>,
                                   <<"bearerFormat", PyStr("JWT")>> >>)>> >>)
        ELSE IF auth_type = "basic_auth"
        THEN PyDict(<< <<"basic_auth",
                         PyDict(<< <<"type", PyStr("http")>>,
                                   <<"scheme", PyStr("basic")>> >>)>> >>)
        ELSE IF auth_type = "api_key"
        THEN PyDict(<< <<"api_key",
                         PyDict(<< <<"type", PyStr("apiKey")>>,
                                   <<"in", PyStr("header")>>,
                                   <<"name", PyStr("X-API-Key")>> >>)>> >>)
        ELSE PyDict(<<>>)

_build_security_schemes(auth) ==
    LET auth_type == Get(auth, "type", "none")
    IN  IF auth_type = "bearer_token"
        THEN PyDict(<< <<"bearer_token",
                         PyDict(<< <<"type", PyStr("http")>>,
                                   <<"scheme", PyStr("bearer")>>,
                                   <<"bearerFormat", PyStr("JWT")>> >>)>> >>)
        ELSE IF auth_type = "basic_auth"
        THEN PyDict(<< <<"basic_auth",
                         PyDict(<< <<"type", PyStr("http")>>,
                                   <<"scheme", PyStr("basic")>> >>)>> >>)
        ELSE IF auth_type = "api_key"
        THEN PyDict(<< <<"api_key",
                         PyDict(<< <<"type", PyStr("apiKey")>>,
                                   <<"in", PyStr(Get(auth, "location", "header"))>>,
                                   <<"name", PyStr("X-API-Key")>> >>)>> >>)
        ELSE PyDict(<<>>)

_generate_openapi_doc(details, auth) ==
    LET method == Lower(Get(details, "method", "GET"))
        path == Get(details, "path", "")
        query_params == Get(details, "query_params", <<>>)
        body == Get(details, "body", <<>>)
        hasAuth == Get(auth, "type", None) # "none"
        responses ==
            PyDict(<< <<"200",
                PyDict(<<
                    <<"description", PyStr("Successful response")>>,
                    <<"content",
                      PyDict(<< <<"application/json",
                        PyDict(<< <<"schema",
                          PyDict(<<
                            <<"type", PyStr("object")>>,
                            <<"properties",
                              PyDict(<<
                                <<"status", PyDict(<< <<"type", PyStr("string")>> >>)>>,
                                <<"data", PyDict(<< <<"type", PyStr("object")>> >>)>>
                              >>)>> >>)>> >>)>> >>)>> >>)>> >>)
        operation ==
            << <<"summary", PyStr(Upper(method) \o " " \o path)>>,
               <<"description", PyStr("Endpoint reverse-engineered from HAR file")>>,
               <<"parameters", _build_openapi_parameters(query_params)>>,
               <<"requestBody", _build_openapi_request_body(body)>>,
               <<"responses", responses>> >>
        spec ==
            << <<"openapi", PyStr("3.0.0")>>,
               <<"info",
                 PyDict(<<
                    <<"title", PyStr("Reverse Engineered API")>>,
                    <<"description",
                      PyStr("API documentation generated from HAR file analysis")>>,
                    <<"version", PyStr("1.0.0")>> >>)>>,
               <<"servers",
                 PyList(<<PyDict(<<
                    <<"url", PyStr(Get(details, "scheme", "https") \o "://"
                                       \o Get(details, "host", ""))>>,
                    <<"description", PyStr("API Server")>> >>)>>)>>,
               <<"paths",
                 PyDict(<< <<path,
                   PyDict(<< <<method,
                     PyDict(IF hasAuth
                            THEN DictSet(operation, "security",
                                     PyList(<<PyDict(<< <<Get(auth, "type", "none"),
                                                          PyList(<<>>)>> >>)>>))
                            ELSE operation)>> >>)>> >>)>> >>
    IN  JsonDumps(PyDict(IF hasAuth
                         THEN DictSet(spec, "components",
                                  PyDict(<< <<"securitySchemes",
                                              _build_security_schemes(auth)>> >>))
                         ELSE spec), 0)

generate_documentation(details, auth, fmt) ==
    IF fmt = "markdown" THEN Returned(_generate_markdown_doc(details, auth))
    ELSE IF fmt = "openapi" THEN Returned(_generate_openapi_doc(details, auth))
    ELSE Raised("ValueError")

(***************************************************************************)
(* main: the model and the descriptor of the selected entry, as            *)
(* analyze_har_file builds them, and the two endpoints that project them   *)
(***************************************************************************)

supported_languages == {"python", "javascript", "go"}

supported_formats == {"markdown", "openapi"}

\* The file name export_docs_endpoint gives the document
DocFilename(details, fmt) ==
    LET method == Lower(Get(details, "method", "GET"))
        replaced == Replace(Get(details, "path", "/"), "/", "_")
        stripped == IF StartsWith(replaced, "_") THEN Tail(replaced) ELSE replaced
        path == IF stripped = "" THEN "api" ELSE stripped
    IN  method \o "_" \o path \o "." \o (IF fmt = "openapi" THEN "json" ELSE fmt)

generate_code_endpoint(details, lang) ==
    IF lang \notin supported_languages THEN Raised("HTTPException 400")
    ELSE LET generated == generate_code(details, lang)
         IN  IF generated.raised = "ValueError" THEN Raised("HTTPException 400")
             ELSE generated

export_docs_endpoint(details, auth, fmt) ==
    IF fmt \notin supported_formats THEN Raised("HTTPException 400")
    ELSE LET content == generate_documentation(details, auth, fmt)
         IN  IF content.raised = "ValueError" THEN Raised("HTTPException 400")
             ELSE Returned([content |-> content.val,
                            format |-> fmt,
                            filename |-> DocFilename(details, fmt)])

\* The entries drawn: a list of at most n different headers put into one of
\* five requests, the last without a URL
ProjectEntries(n) ==
    LET drawn == {Header("Authorization", "Bearer abcdefgh12345"),
                  Header("Authorization", "Basic dXNlcjpwYXNz"),
                  Header("x-api-key", "key-0123456789abcdef"),
                  Header("accept", "application/json"),
                  Header(":authority", "x.test")}
        lists == {list \in UNION {[1..k -> drawn] : k \in 0..n} :
                    \A i, j \in DOMAIN list : list[i] = list[j] => i = j}
        rests ==
            { << <<"method", "GET">>,
                 <<"url", "https://x.test/a?b=1">>,
                 <<"queryString", <<Header("b", "1")>> >> >>,
              << <<"method", "GET">>,
                 <<"url", "https://x.test/users/{id}?api_key=q-secret-123">>,
                 <<"queryString", <<Header("api_key", "q-secret-123")>> >> >>,
              << <<"method", "POST">>,
                 <<"url", "https://x.test/items">>,
                 <<"postData", << <<"mimeType", "application/json">>,
                                  <<"text", "{\"a\": [1, null]}">> >> >> >>,
              << <<"method", "PUT">>,
                 <<"url", "https://x.test/">>,
                 <<"postData", << <<"mimeType", "application/x-www-form-urlencoded">>,
                                  <<"text", "a=1&a=2">> >> >> >>,
              << <<"method", "POST">>,
                 <<"postData", << <<"mimeType", "text/plain">>, <<"text", "hello">> >> >> >> }
    IN  {<< <<"request", DictSet(rest, "headers", headers)>> >> :
            rest \in rests, headers \in lists}

InitProject ==
    /\ pc = "extract"
    /\ entry \in ProjectEntries(MaxRequestHeaders)
    /\ request_details = Unused /\ auth_info = Unused
    /\ RedactIdle /\ FilterIdle /\ BodyIdle /\ AnalyzeIdle /\ ProjectionIdle

DetectAuthentication ==
    /\ pc = "extracted"
    /\ request_details.raised = ""
    /\ auth_info' = detect_authentication(request_details.val)
    /\ pc' = "detected"
    /\ UNCHANGED <<entry, request_details>>
    /\ UNCHANGED <<redactVars, filterVars, bodyVars, projectionVars, analyzeVars>>

GenerateCode ==
    /\ pc = "detected"
    /\ \E lang \in supported_languages \cup {"ruby"} :
        /\ language' = lang
        /\ code' = generate_code_endpoint(request_details.val, lang)
    /\ UNCHANGED <<pc, curl_command, format_type, documentation>>
    /\ UNCHANGED <<redactVars, filterVars, bodyVars, modelVars, analyzeVars>>

ExportDocs ==
    /\ pc = "detected"
    /\ \E fmt \in supported_formats \cup {"html"} :
        /\ format_type' = fmt
        /\ documentation' = export_docs_endpoint(request_details.val, auth_info, fmt)
    /\ UNCHANGED <<pc, curl_command, language, code>>
    /\ UNCHANGED <<redactVars, filterVars, bodyVars, modelVars, analyzeVars>>

NextProject ==
    \/ ExtractRequestDetails
    \/ DetectAuthentication
    \/ GenerateCode
    \/ ExportDocs

SpecProject == InitProject /\ [][NextProject]_vars

\* C3: for every request model for which detect_authentication returns a type
\* other than none, neither the code generated for a supported language nor
\* the documentation generated for a supported format contains the string
\* auth_info.original_value.
C3_OriginalValueNotProjected ==
    (pc = "detected" /\ auth_info.type # "none") =>
        /\ (language # Unused /\ code.raised = "") =>
               ~Contains(code.val, auth_info.original_value)
        /\ (format_type # Unused /\ documentation.raised = "") =>
               ~Contains(documentation.val.content, auth_info.original_value)

\* The lines of a program
C11_Lines(program) == Split(program, "\n")

\* What marks the line of the request call, the call that prints, the status
\* of the response and its body, in each language
C11_Tokens ==
    [python |-> [call |-> "requests.", print |-> "print(",
                 status |-> "response.status", body |-> "response.text"],
     javascript |-> [call |-> "fetch(", print |-> "console.log(",
                     status |-> "status", body |-> "data"],
     go |-> [call |-> "client.Do(", print |-> "fmt.Print",
             status |-> "resp.Status", body |-> "body"]]

\* Some line after the line of the request call prints what the token names
C11_PrintsAfterCall(program, lang, token) ==
    LET lines == C11_Lines(program)
    IN  \E i \in DOMAIN lines :
            /\ Contains(lines[i], C11_Tokens[lang].call)
            /\ \E j \in DOMAIN lines :
                    /\ j > i
                    /\ Contains(lines[j], C11_Tokens[lang].print)
                    /\ Contains(lines[j], token)

\* C11: for every supported language and every model with a non-empty URL, the
\* generated program prints, after the request call, both the status of the
\* response and its body or text.
C11_PrintsStatusAndBody ==
    (pc = "detected" /\ language \in supported_languages /\ request_details.val.url # "") =>
        /\ C11_PrintsAfterCall(code.val, language, C11_Tokens[language].status)
        /\ C11_PrintsAfterCall(code.val, language, C11_Tokens[language].body)

\* What marks, in each language, the line that completes the object carrying
\* the query parameters, the line of the request call, and the use of that
\* object in the call
C12_Tokens ==
    [python |-> [define |-> "params = ", call |-> "requests.", use |-> "params=params"],
     javascript |-> [define |-> "url.searchParams.append(", call |-> "fetch(", use |-> "fetch(url"],
     go |-> [define |-> "u.RawQuery = q.Encode()", call |-> "http.NewRequest(", use |-> ", u."]]

\* C12: for every supported language and every model with a non-empty URL and
\* non-empty query_params, the generated program names every query parameter
\* in a structure defined before the request call, and the request call uses
\* the object that carries the parameters.
C12_QueryParamsAttached ==
    (/\ pc = "detected" /\ language \in supported_languages
     /\ request_details.val.url # "" /\ request_details.val.query_params # <<>>) =>
        LET lines == C11_Lines(code.val)
            tokens == C12_Tokens[language]
            params == request_details.val.query_params
        IN  \E i, j \in DOMAIN lines :
                /\ i < j
                /\ Contains(lines[i], tokens.define)
                /\ Contains(lines[j], tokens.call)
                /\ Contains(lines[j], tokens.use)
                /\ \A k \in DOMAIN params :
                        \E n \in 1..(j - 1) : Contains(lines[n], JsonString(params[k][1]))

(***************************************************************************)
(* generate_code and generate_documentation called on any request_info     *)
(* dictionary, with any language or format tag                             *)
(***************************************************************************)

\* The dictionaries drawn, every one with a path.  Each field is drawn as a
\* sequence: empty when the dictionary lacks the field, else its value alone.
\* First the bodies, each with and without query parameters; then the
\* dictionaries without a URL or with an empty one; then the header dicts of at
\* most n items.
GenerateModels(n) ==
    LET Field(key, drawn) == IF drawn = <<>> THEN <<>> ELSE <<key, drawn[1]>>
        Model(method, url, headers, query_params, body) ==
            LET fields == SelectSeq(<<Field("method", method), Field("url", url),
                                      Field("headers", headers),
                                      Field("query_params", query_params),
                                      Field("body", body), <<"path", "/a">>,
                                      <<"host", "x.test">>, <<"scheme", "https">> >>,
                                    LAMBDA f : f # <<>>)
            IN  [key \in {fields[i][1] : i \in DOMAIN fields} |->
                    fields[CHOOSE i \in DOMAIN fields : fields[i][1] = key][2]]
        contents ==
            {PyBool(FALSE), PyBool(TRUE), PyInt(0), PyInt(7), PyNone, PyStr(""), PyStr("s"),
             PyList(<<>>), PyDict(<<>>),
             PyList(<<PyInt(1), PyStr("x")>>),
             PyDict(<< <<"a", PyInt(1)>> >>),
             PyDict(<< <<"k", PyBool(FALSE)>>, <<"e", PyStr("")>>, <<"z", PyList(<<>>)>>,
                       <<"n", PyNone>> >>),
             PyDict(<< <<"a", PyList(<<PyBool(TRUE), PyInt(-3)>>)>>, <<"b", PyDict(<<>>)>> >>)}
        bodies ==
            {<<>>, << <<>> >>, <<BodyNone>>,
             <<BodyOf("form", PyDictOfLists(<< <<"a", <<"1", "2">> >>, <<"c", <<"">> >> >>),
                      "a=1&a=2&c=")>>,
             <<BodyOf("text", PyStr("plain text"), "plain text")>>,
             << << <<"type", "text">> >> >>,
             << << <<"raw", "untyped">> >> >>}
                \cup {<<BodyOf("json", content, "raw")>> : content \in contents}
        dicts == UNION {[1..k -> {<<"accept", "a/b">>, <<"X-Id", "it's">>}] : k \in 0..n}
        accept == << <<"accept", "a/b">> >>
        b1 == << <<"b", "1">> >>
    IN  {Model(<<"POST">>, <<"https://x.test/a">>, <<accept>>, <<query_params>>, body) :
            query_params \in {<<>>, << <<"b", "1">>, <<"q", "x y">> >>}, body \in bodies}
        \cup {Model(method, url, headers, query_params, body) :
                method \in {<<>>, <<"GET">>}, url \in {<<>>, <<"">>},
                headers \in {<<>>, <<accept>>},
                query_params \in {<<>>, <<b1>>},
                body \in {<<>>, <<BodyNone>>,
                          <<BodyOf("json", PyDict(<< <<"a", PyInt(1)>> >>), "raw")>>}}
        \cup {Model(method, <<"https://x.test/a">>, <<headers>>, << <<>> >>, <<BodyNone>>) :
                method \in {<<>>, <<"GET">>, <<"delete">>},
                headers \in {d \in dicts : \A i, j \in DOMAIN d : d[i][1] = d[j][1] => i = j}}

\* The descriptors drawn, as detect_authentication builds them
GenerateAuthInfos ==
    {NoAuth,
     [type |-> "bearer_token", location |-> "header",
      redacted_value |-> "abcd*****2345", original_value |-> "abcdefgh12345"],
     [type |-> "api_key", location |-> "query",
      redacted_value |-> "q-********23", original_value |-> "q-secret-123"]}

InitGenerate ==
    /\ pc = "generate"
    /\ request_details \in GenerateModels(MaxRequestHeaders)
    /\ auth_info \in GenerateAuthInfos
    /\ entry = Unused
    /\ RedactIdle /\ FilterIdle /\ BodyIdle /\ AnalyzeIdle /\ ProjectionIdle

CallGenerateCode ==
    /\ pc = "generate"
    /\ \E lang \in supported_languages \cup {"Python", "PYTHON", "js", "ruby", ""} :
        /\ language' = lang
        /\ code' = generate_code(request_details, lang)
    /\ pc' = "generated"
    /\ UNCHANGED <<curl_command, format_type, documentation>>
    /\ UNCHANGED <<redactVars, filterVars, bodyVars, modelVars, analyzeVars>>

CallGenerateDocumentation ==
    /\ pc = "generate"
    /\ \E fmt \in supported_formats \cup {"Markdown", "md", "html", "json", ""} :
        /\ format_type' = fmt
        /\ documentation' = generate_documentation(request_details, auth_info, fmt)
    /\ pc' = "generated"
    /\ UNCHANGED <<curl_command, language, code>>
    /\ UNCHANGED <<redactVars, filterVars, bodyVars, modelVars, analyzeVars>>

NextGenerate == CallGenerateCode \/ CallGenerateDocumentation

SpecGenerate == InitGenerate /\ [][NextGenerate]_vars

\* How a program declares its body, how its request call sends the body, how
\* it declares and sends a JSON body, and how it quotes a raw text, in each
\* language
C13_Tokens ==
    [python |-> [declare |-> "data = ", send |-> "=data)",
                 jsonDeclare |-> "data = ", jsonSend |-> "json=data",
                 open |-> "\"\"\"", close |-> "\"\"\""],
     javascript |-> [declare |-> "const body = ", send |-> "body: body",
                     jsonDeclare |-> "const body = JSON.stringify(", jsonSend |-> "body: body",
                     open |-> Backtick, close |-> Backtick \o ";"],
     go |-> [declare |-> "body := ", send |-> ", body)",
             jsonDeclare |-> "body := strings.NewReader(", jsonSend |-> ", body)",
             open |-> "strings.NewReader(" \o Backtick, close |-> Backtick \o ")"]]

C13_Declares(program, lang) == Contains(program, C13_Tokens[lang].declare)

C13_Sends(program, lang) == Contains(program, C13_Tokens[lang].send)

C13_JsonConvention(program, lang) ==
    /\ Contains(program, C13_Tokens[lang].jsonDeclare)
    /\ Contains(program, C13_Tokens[lang].jsonSend)

\* C13: in every supported language the program sends the body by its variant:
\* json, declared and sent with the JSON convention of the language; form,
\* declared and sent with a convention other than the JSON one; text, the raw
\* string declared and sent; none, no body declared and none sent.
C13_BodyByVariant ==
    (/\ pc = "generated" /\ language \in supported_languages
     /\ Get(request_details, "url", "") # ""
     /\ "body" \in DOMAIN request_details
     /\ BodyType(request_details.body) \in {"none", "json", "form", "text"}) =>
        LET program == code.val
            body == request_details.body
            tokens == C13_Tokens[language]
        IN  CASE BodyType(body) = "json" -> C13_JsonConvention(program, language)
              [] BodyType(body) = "form" ->
                    /\ C13_Declares(program, language)
                    /\ C13_Sends(program, language)
                    /\ ~C13_JsonConvention(program, language)
              [] BodyType(body) = "text" ->
                    /\ Contains(program, tokens.declare)
                    /\ Contains(program, tokens.open \o DictGet(body, "raw", "") \o tokens.close)
                    /\ C13_Sends(program, language)
              [] BodyType(body) = "none" ->
                    /\ ~C13_Declares(program, language)
                    /\ ~C13_Sends(program, language)

\* Where the literal of a JSON body begins and ends in a program, in each
\* language
C14_Tokens ==
    [python |-> [before |-> "data = ", after |-> "\n\n# Make request"],
     javascript |-> [before |-> "const body = JSON.stringify(",
                     after |-> ");\n\n// Make request"],
     go |-> [before |-> "body := strings.NewReader(" \o Backtick,
             after |-> Backtick \o ")\n\n    // Create request"]]

\* The literal of the JSON body in a program
C14_Literal(program, lang) ==
    LET rest == C10_SplitOn(program, C14_Tokens[lang].before)
    IN  C10_SplitOn(rest[Len(rest)], C14_Tokens[lang].after)[1]

\* A literal of the language read as a JSON text: Python writes True, False
\* and None, and true, false and null are no Python literals
C14_AsJson(literal, lang) ==
    IF lang # "python" THEN literal
    ELSE LET invalid == Replace(Replace(Replace(literal, "true", "!"), "false", "!"),
                                "null", "!")
         IN  Replace(Replace(Replace(invalid, "True", "true"), "False", "false"),
                     "None", "null")

\* C14: the literal _format_dict renders for the content of a JSON body is, in
\* every supported language, a valid literal of the language that denotes the
\* content, for every JSON value, false, 0, null, the empty string and the
\* empty array included, at top level or nested.
C14_LiteralDenotesValue ==
    (/\ pc = "generated" /\ language \in supported_languages
     /\ Get(request_details, "url", "") # ""
     /\ "body" \in DOMAIN request_details
     /\ BodyType(request_details.body) = "json") =>
        LET literal == C14_AsJson(C14_Literal(code.val, language), language)
        IN  /\ JsonLoads(literal).status = "ok"
            /\ JsonLoads(literal).val = DictGet(request_details.body, "content", PyNone)

\* C15: generate_code raises for every language tag other than exactly
\* python, javascript, go, also when the URL is empty or missing, and
\* generate_documentation raises for every format tag other than exactly
\* markdown, openapi; in neither case is an artifact returned.
C15_UnsupportedTargetRaises ==
    pc = "generated" =>
        /\ (language # Unused /\ language \notin {"python", "javascript", "go"}) =>
                (code.raised = "ValueError" /\ code.val = <<>>)
        /\ (format_type # Unused /\ format_type \notin {"markdown", "openapi"}) =>
                (documentation.raised = "ValueError" /\ documentation.val = <<>>)

\* generate_code has raised for the tag Python on a model whose URL is empty
C15_Witness ==
    /\ pc = "generated" /\ language = "Python"
    /\ "url" \in DOMAIN request_details /\ request_details.url = ""
    /\ code.raised = "ValueError"

\* generate_documentation has raised for the tag Markdown
C15_WitnessFormat ==
    pc = "generated" /\ format_type = "Markdown" /\ documentation.raised = "ValueError"

\* The comment prefix of each language
C16_CommentPrefix == [python |-> "#", javascript |-> "//", go |-> "//"]

\* C16: for each supported language, generate_code on a model whose URL is
\* empty or missing returns, without raising, a single comment line in the
\* comment syntax of the language that states the error, and emits no
\* request code, whatever the method, headers, query parameters and body are.
C16_EmptyUrlSoftFailure ==
    (/\ pc = "generated" /\ language \in supported_languages
     /\ Get(request_details, "url", "") = "") =>
        /\ code.raised = ""
        /\ ~Contains(code.val, "\n")
        /\ StartsWith(code.val, C16_CommentPrefix[language] \o " ")
        /\ Contains(code.val, "Error: No URL provided")
        /\ ~Contains(code.val, C11_Tokens[language].call)

\* A Go program was asked for a model with headers, query parameters and a
\* body but no URL
C16_Witness ==
    /\ pc = "generated" /\ language = "go"
    /\ "url" \notin DOMAIN request_details
    /\ Get(request_details, "headers", <<>>) # <<>>
    /\ Get(request_details, "query_params", <<>>) # <<>>
    /\ BodyType(Get(request_details, "body", <<>>)) = "json"
    /\ code = Returned("// Error: No URL provided in request details")

\* A key of an object at nesting depth `depth` of a document printed with an
\* indentation of two spaces, up to its colon
C17_Key(depth, key) == Repeat(" ", 2 * depth) \o "\"" \o key \o "\": "

\* The media type and the schema type of each body variant
C17_Expected ==
    [json |-> [media |-> "application/json", schema |-> "object"],
     form |-> [media |-> "application/x-www-form-urlencoded", schema |-> "string"],
     text |-> [media |-> "text/plain", schema |-> "string"]]

\* C17: in the OpenAPI document, requestBody is an object if and only if the
\* body variant is not none (it is null otherwise); the object has a single
\* content media type, application/json for a json body,
\* application/x-www-form-urlencoded for a form body and text/plain for a
\* text body, whose schema type is object for json and string otherwise.
C17_RequestBodyByVariant ==
    (pc = "detected" /\ format_type = "openapi" /\ documentation.raised = "") =>
        LET lines == Split(documentation.val.content, "\n")
            variant == BodyType(request_details.val.body)
            starts == {i \in DOMAIN lines : StartsWith(lines[i], C17_Key(4, "requestBody"))}
            ends == {i \in DOMAIN lines : lines[i] = C17_Key(4, "responses") \o "{"}
        IN  /\ Cardinality(starts) = 1 /\ Cardinality(ends) = 1
            /\ LET i == CHOOSE i \in starts : TRUE
                   j == CHOOSE j \in ends : TRUE
                   media == {k \in (i + 1)..(j - 1) :
                                StartsWith(lines[k], Repeat(" ", 12) \o "\"")}
               IN  /\ i < j
                   /\ (variant = "none") <=> (lines[i] = C17_Key(4, "requestBody") \o "null,")
                   /\ (variant # "none") <=> (lines[i] = C17_Key(4, "requestBody") \o "{")
                   /\ variant # "none" =>
                        /\ lines[i + 1] = C17_Key(5, "required") \o "true,"
                        /\ lines[i + 2] = C17_Key(5, "content") \o "{"
                        /\ Cardinality(media) = 1
                        /\ media = {i + 3}
                        /\ lines[i + 3] = C17_Key(6, C17_Expected[variant].media) \o "{"
                        /\ lines[i + 4] = C17_Key(7, "schema") \o "{"
                        /\ lines[i + 5] = C17_Key(8, "type") \o "\""
                                            \o C17_Expected[variant].schema \o "\""
                        /\ lines[i + 6] = Repeat(" ", 14) \o "},"

\* An OpenAPI document was exported for a request with a form body
C17_Witness ==
    /\ pc = "detected" /\ format_type = "openapi" /\ documentation.raised = ""
    /\ BodyType(request_details.val.body) = "form"
    /\ Contains(documentation.val.content,
                C17_Key(6, "application/x-www-form-urlencoded") \o "{")

\* The first two members of the scheme of each authentication type
C18_Scheme(auth) ==
    IF auth.type = "bearer_token" THEN <<"\"type\": \"http\",", "\"scheme\": \"bearer\",">>
    ELSE IF auth.type = "basic_auth" THEN <<"\"type\": \"http\",", "\"scheme\": \"basic\"">>
    ELSE <<"\"type\": \"apiKey\",", "\"in\": \"" \o auth.location \o "\",">>

\* The name of the key a line of a document begins with
C18_KeyName(line) == C10_SplitOn(line, "\"")[2]

\* C18: in the OpenAPI document, components.securitySchemes and the security
\* list of the operation are present if and only if the type of the AuthInfo
\* is not none; when present, the scheme is http/bearer for bearer_token,
\* http/basic for basic_auth and apiKey with `in` equal to the detected
\* location for api_key, and every scheme name the security list references
\* is a key of components.securitySchemes.
C18_SecuritySchemes ==
    (pc = "detected" /\ format_type = "openapi" /\ documentation.raised = "") =>
        LET lines == Split(documentation.val.content, "\n")
            security == {i \in DOMAIN lines : lines[i] = C17_Key(4, "security") \o "["}
            components == {i \in DOMAIN lines : lines[i] = C17_Key(1, "components") \o "{"}
            schemes == {i \in DOMAIN lines : lines[i] = C17_Key(2, "securitySchemes") \o "{"}
            present == auth_info.type # "none"
        IN  /\ present <=> security # {}
            /\ present <=> components # {}
            /\ present <=> schemes # {}
            /\ ~present => ~Contains(documentation.val.content, "\"security")
            /\ present =>
                /\ Cardinality(security) = 1 /\ Cardinality(components) = 1
                /\ Cardinality(schemes) = 1
                /\ LET i == CHOOSE i \in security : TRUE
                       c == CHOOSE c \in components : TRUE
                       k == CHOOSE k \in schemes : TRUE
                       last == CHOOSE n \in (i + 1)..Len(lines) :
                                  /\ lines[n] = Repeat(" ", 8) \o "]"
                                  /\ \A o \in (i + 1)..(n - 1) : lines[o] # lines[n]
                       referenced == {C18_KeyName(lines[n]) : n \in
                                        {n \in (i + 1)..(last - 1) :
                                            StartsWith(lines[n], Repeat(" ", 12) \o "\"")}}
                       keys == {n \in (k + 1)..Len(lines) :
                                    StartsWith(lines[n], Repeat(" ", 6) \o "\"")}
                   IN  /\ i < c /\ k = c + 1
                       /\ referenced = {auth_info.type}
                       /\ \A name \in referenced :
                            \E n \in keys : lines[n] = C17_Key(3, name) \o "{"
                       /\ \A n \in keys :
                            /\ lines[n] = C17_Key(3, auth_info.type) \o "{"
                            /\ lines[n + 1] = Repeat(" ", 8) \o C18_Scheme(auth_info)[1]
                            /\ lines[n + 2] = Repeat(" ", 8) \o C18_Scheme(auth_info)[2]

\* An OpenAPI document was exported for a request whose API key is in the
\* query string
C18_Witness ==
    /\ pc = "detected" /\ format_type = "openapi" /\ documentation.raised = ""
    /\ auth_info.type = "api_key" /\ auth_info.location = "query"
    /\ Contains(documentation.val.content, "\"in\": \"query\",\n        \"name\": \"X-API-Key\"")

(***************************************************************************)
(* main.analyze_har_file: the analyze cycle, from the entries of the       *)
(* parsed HAR log to the AnalyzeResponse or the HTTPException              *)
(***************************************************************************)

\* _get_response_preview keeps this many characters of the response text
PreviewLimit == 200

_get_response_preview(http_response) ==
    LET text == DictGet(DictGet(http_response, "content", <<>>), "text", "")
    IN  IF text = "" THEN ""
        ELSE Slice(text, 1, PreviewLimit) \o (IF Len(text) > PreviewLimit THEN "..." ELSE "")

create_request_summary(e) ==
    [method |-> DictGet(DictGet(e, "request", <<>>), "method", ""),
     url |-> DictGet(DictGet(e, "request", <<>>), "url", ""),
     content_type |-> _get_response_content_type(DictGet(e, "response", <<>>)),
     response_preview |-> _get_response_preview(DictGet(e, "response", <<>>))]

\* identify_best_request(summaries, user_query), where llm is what the call
\* of the LLM and the decoding of its answer give: the index, or an exception
identify_best_request(list, llm) ==
    IF list = <<>> THEN Raised("ValueError") ELSE llm

\* list[index] of Python, for an index into a list
PyIndex(list, index) ==
    IF index >= Len(list) \/ index < 0 - Len(list) THEN Raised("IndexError")
    ELSE Returned(list[IF index < 0 THEN Len(list) + index + 1 ELSE index + 1])

\* An HTTPException that only rewraps every exception of the cycle
Surfaced_rewraps_all(exception) == "HTTPException 500: Error processing HAR file"

\* The except clauses of analyze_har_file: an HTTPException is raised again,
\* any other exception is wrapped
Surfaced(exception) ==
    IF StartsWith(exception, "HTTPException") THEN exception
    ELSE "HTTPException 500: Error processing HAR file"

\* A validation that lets the index -1 through
InvalidIndex_allows_last(index, list) == index < -1 \/ index >= Len(list)

\* best_index < 0 or best_index >= len(api_requests)
InvalidIndex(index, list) == index < 0 \/ index >= Len(list)

\* The parameters summary of the response
ParametersOf(info) ==
    LET Shown(header) == Lower(header[1]) \notin {"authorization", "x-api-key", "api-key"}
    IN  [query_params |-> Get(info, "query_params", <<>>),
         path_params |-> Get(info, "path_params", <<>>),
         headers |-> SelectSeq(Get(info, "headers", <<>>), Shown)]

\* The AnalyzeResponse built for the selected entry
AnalyzeResponse(selected, index, total, curl, info, auth) ==
    [curl_command |-> curl,
     request_details |->
        [method |-> DictGet(DictGet(selected, "request", <<>>), "method", ""),
         url |-> DictGet(DictGet(selected, "request", <<>>), "url", ""),
         index |-> index,
         total_api_requests |-> total],
     request_info |-> info,
     auth_info |-> auth,
     parameters |-> ParametersOf(info)]

\* The entry lists drawn: at most n of five entries, two of which the filter
\* drops (an HTML page and an image) and one of which has a JSON body too
\* deep for the decoder
AnalyzeEntryLists(n) ==
    LET Entry(method, url, headers, more, type, text) ==
            << <<"request", << <<"method", method>>, <<"url", url>>,
                               <<"headers", headers>> >> \o more>>,
               <<"response", << <<"headers", type>>,
                                <<"content", << <<"text", text>> >> >> >> >> >>
        json == <<Header("Content-Type", "application/json")>>
        drawn ==
            {Entry("GET", "https://x.test/", <<>>, <<>>,
                   <<Header("content-type", "text/html; charset=utf-8")>>, "<html></html>"),
             Entry("GET", "https://x.test/logo.png", <<>>, <<>>,
                   <<Header("Content-Type", "image/png")>>, ""),
             Entry("GET", "https://x.test/a?b=1",
                   <<Header("Authorization", "Bearer abcdefgh12345")>>,
                   << <<"queryString", <<Header("b", "1")>> >> >>,
                   json, Repeat("[1, 2, 3, 4, 5, 6, 7, 8]", 9)),
             Entry("POST", "https://x.test/items",
                   <<Header("x-api-key", "key-0123456789abcdef"), Header("accept", "*/*")>>,
                   << <<"postData", << <<"mimeType", "application/json">>,
                                       <<"text", "{\"a\": 1}">> >> >> >>,
                   <<>>, "{\"id\": 7}"),
             Entry("PUT", "https://x.test/deep", <<>>,
                   << <<"postData", << <<"mimeType", "application/json">>,
                                       <<"text", "[[[[[[[1]]]]]]]">> >> >> >>,
                   json, "")}
    IN  UNION {[1..k -> drawn] : k \in 0..n}

\* The exceptions of the call of the LLM and of the decoding of its answer
LlmErrors == {"APIError", "JSONDecodeError", "KeyError"}

InitAnalyze ==
    /\ pc = "filter"
    /\ entries \in AnalyzeEntryLists(MaxEntries)
    /\ api_requests = Unused
    /\ entry = Unused /\ request_details = Unused /\ auth_info = Unused
    /\ RedactIdle /\ BodyIdle /\ AnalyzeIdle /\ ProjectionIdle

\* 2: filter the entries; without an API request the cycle ends with 404
FilterEntries ==
    /\ pc = "filter"
    /\ api_requests' = filter_api_requests(entries)
    /\ IF api_requests' = <<>>
       THEN /\ analyze_response' = Raised(Surfaced("HTTPException 404: No API requests found in HAR file"))
            /\ pc' = "no_candidates"
       ELSE /\ pc' = "summaries"
            /\ UNCHANGED analyze_response
    /\ UNCHANGED <<entries, summaries, best_index>>
    /\ UNCHANGED <<redactVars, bodyVars, modelVars, projectionVars>>

\* 3: one summary per API request
CreateSummaries ==
    /\ pc = "summaries"
    /\ summaries' = [i \in DOMAIN api_requests |-> create_request_summary(api_requests[i])]
    /\ pc' = "select"
    /\ UNCHANGED <<best_index, analyze_response>>
    /\ UNCHANGED <<redactVars, filterVars, bodyVars, modelVars, projectionVars>>

\* 4: the LLM selection.  The call gives any integer, here from two below
\* the first position to one past the last, or raises; an exception ends the
\* cycle
IdentifyBestRequest ==
    /\ pc = "select"
    /\ \/ \E index \in (0 - 2)..(Len(summaries) + 1) :
            best_index' = identify_best_request(summaries, Returned(index))
       \/ \E exception \in LlmErrors :
            best_index' = identify_best_request(summaries, Raised(exception))
    /\ IF best_index'.raised # ""
       THEN /\ analyze_response' = Raised(Surfaced(best_index'.raised))
            /\ pc' = "selection_failed"
       ELSE /\ pc' = "validate"
            /\ UNCHANGED analyze_response
    /\ UNCHANGED summaries
    /\ UNCHANGED <<redactVars, filterVars, bodyVars, modelVars, projectionVars>>

\* 4, continued: the test of the index
ValidateIndex ==
    /\ pc = "validate"
    /\ IF InvalidIndex(best_index.val, api_requests)
       THEN /\ analyze_response' = Raised(Surfaced("HTTPException 500: LLM returned invalid request index"))
            /\ pc' = "invalid_index"
       ELSE /\ pc' = "project"
            /\ UNCHANGED analyze_response
    /\ UNCHANGED <<summaries, best_index>>
    /\ UNCHANGED <<redactVars, filterVars, bodyVars, modelVars, projectionVars>>

\* 5 to 8: the projections of the selected entry and the response
ProjectSelected ==
    /\ pc = "project"
    /\ LET selected_request == PyIndex(api_requests, best_index.val)
       IN  IF selected_request.raised # ""
           THEN /\ analyze_response' = Raised(Surfaced(selected_request.raised))
                /\ pc' = "unreachable_index"
                /\ UNCHANGED <<modelVars, curl_command>>
           ELSE /\ entry' = selected_request.val
                /\ curl_command' = generate_curl_command(entry')
                /\ request_details' = extract_request_details(entry')
                /\ IF request_details'.raised # ""
                   THEN /\ auth_info' = auth_info
                        /\ analyze_response' = Raised(Surfaced(request_details'.raised))
                        /\ pc' = "projection_failed"
                   ELSE /\ auth_info' = detect_authentication(request_details'.val)
                        /\ analyze_response' = Returned(AnalyzeResponse(
                                entry', best_index.val, Len(api_requests),
                                curl_command', request_details'.val, auth_info'))
                        /\ pc' = "done"
    /\ UNCHANGED <<summaries, best_index>>
    /\ UNCHANGED <<language, code, format_type, documentation>>
    /\ UNCHANGED <<redactVars, filterVars, bodyVars>>

NextAnalyze ==
    \/ FilterEntries
    \/ CreateSummaries
    \/ IdentifyBestRequest
    \/ ValidateIndex
    \/ ProjectSelected

SpecAnalyze == InitAnalyze /\ [][NextAnalyze]_vars

\* C19: when the filter leaves no candidate entry, the analyze cycle fails
\* with the NoCandidates error, surfaced as the 404 it was raised as and not
\* as the generic processing error, the cycle takes no further step (no
\* retry), the LLM selection is never called, and no summaries, curl command,
\* request model or AuthInfo is produced.
C19_NoCandidates ==
    /\ []((pc # "filter" /\ api_requests = <<>>) =>
            /\ pc = "no_candidates"
            /\ analyze_response = Raised("HTTPException 404: No API requests found in HAR file")
            /\ summaries = Unused /\ best_index = Unused
            /\ entry = Unused /\ curl_command = Unused
            /\ request_details = Unused /\ auth_info = Unused)
    /\ [](pc = "no_candidates" => api_requests = <<>>)
    /\ [][pc # "no_candidates"]_vars

\* The cycle has failed on a log whose entries were all dropped by the filter
C19_Witness ==
    /\ pc = "no_candidates" /\ Len(entries) = 2 /\ api_requests = <<>>
    /\ analyze_response.raised = "HTTPException 404: No API requests found in HAR file"

\* The positions of the analyze cycle that follow each position
C20_Successors ==
    [filter |-> {"summaries", "no_candidates"},
     summaries |-> {"select"},
     select |-> {"validate", "selection_failed"},
     validate |-> {"project", "invalid_index"},
     project |-> {"done", "projection_failed", "unreachable_index"},
     no_candidates |-> {}, selection_failed |-> {}, invalid_index |-> {},
     unreachable_index |-> {}, projection_failed |-> {}, done |-> {}]

\* What each step of the cycle leaves alone: the filter runs before the
\* summaries, the summaries before the selection, the selection before the
\* test of the index, and the projections only after the test
C20_Step ==
    /\ pc' \in C20_Successors[pc]
    /\ pc = "filter" => UNCHANGED <<summaries, best_index, modelVars, projectionVars>>
    /\ pc = "summaries" =>
        /\ summaries' = [i \in DOMAIN api_requests |-> create_request_summary(api_requests[i])]
        /\ UNCHANGED <<filterVars, best_index, modelVars, projectionVars, analyze_response>>
    /\ pc = "select" => UNCHANGED <<filterVars, summaries, modelVars, projectionVars>>
    /\ pc = "validate" => UNCHANGED <<filterVars, summaries, best_index, modelVars, projectionVars>>
    /\ pc = "project" => UNCHANGED <<filterVars, summaries, best_index>>

\* The selected index is a position of the filtered list wherever a
\* projection is made; an index that is none fails the cycle without any
\* projection; the response is built from the one entry at that position
C20_State ==
    /\ pc \in {"project", "done", "projection_failed", "unreachable_index"} =>
        /\ best_index.raised = ""
        /\ best_index.val >= 0 /\ best_index.val < Len(api_requests)
    /\ pc = "invalid_index" =>
        /\ best_index.val < 0 \/ best_index.val >= Len(api_requests)
        /\ analyze_response = Raised("HTTPException 500: LLM returned invalid request index")
    /\ pc \in {"filter", "summaries", "select", "validate", "project",
               "no_candidates", "selection_failed", "invalid_index"} =>
        /\ entry = Unused /\ curl_command = Unused
        /\ request_details = Unused /\ auth_info = Unused
        /\ pc \in {"no_candidates", "selection_failed", "invalid_index"} =>
                analyze_response.raised # ""
        /\ pc \in {"filter", "summaries", "select", "validate", "project"} =>
                analyze_response = Unused
    /\ pc # "unreachable_index"
    /\ pc = "done" =>
        LET selected == api_requests[best_index.val + 1]
            reported == analyze_response.val.request_details
        IN  /\ analyze_response.raised = ""
            /\ entry = selected
            /\ curl_command = generate_curl_command(selected)
            /\ request_details = extract_request_details(selected)
            /\ request_details.raised = ""
            /\ auth_info = detect_authentication(request_details.val)
            /\ analyze_response.val.curl_command = curl_command
            /\ analyze_response.val.request_info = request_details.val
            /\ analyze_response.val.auth_info = auth_info
            /\ reported.method = DictGet(DictGet(selected, "request", <<>>), "method", "")
            /\ reported.url = DictGet(DictGet(selected, "request", <<>>), "url", "")
            /\ reported.url = request_details.val.url
            /\ Contains(curl_command, "'" \o reported.url \o "'")
            /\ reported.index = best_index.val
            /\ reported.total_api_requests = Len(api_requests)

\* C20: in every analyze cycle the steps run in the order filter, summaries,
\* LLM selection, index validation, projections, and the returned index is
\* validated before it is used: a negative index or one that is at least the
\* number of filtered candidates fails the cycle and no projection is
\* produced; otherwise the curl command, the request model, the AuthInfo and
\* the reported method and url are all derived from the one entry at that
\* index of the filtered list.
C20_ValidatedSelection == []C20_State /\ [][C20_Step]_vars

\* The response reports index 0 for a log whose first entry was dropped by
\* the filter: the selected entry is the second of the log
C20_Witness ==
    /\ pc = "done" /\ best_index.val = 0
    /\ Len(entries) = 3 /\ Len(api_requests) = 2
    /\ entry = entries[2] /\ entry # entries[1]
    /\ analyze_response.val.request_details.url = "https://x.test/items"

\* The cycle has failed on the index -1
C20_WitnessInvalid ==
    pc = "invalid_index" /\ best_index.val = 0 - 1 /\ curl_command = Unused

\* The HAR-shaped entry made of the method, the url, the headers and the raw
\* body text of a model
C21_EntryOf(details) ==
    << <<"request",
         << <<"method", Get(details, "method", "GET")>>,
            <<"url", Get(details, "url", "")>>,
            <<"headers", HeaderList(Get(details, "headers", <<>>))>>,
            <<"postData",
              << <<"text", DictGet(Get(details, "body", <<>>), "raw", "")>> >> >> >> >> >>

\* C21: for every request model whose body is present with a non-empty raw
\* text, the curl example embedded in the Markdown document carries that text
\* as --data-raw, and the example is the output of generate_curl_command for
\* the entry made of the model's method, url, headers and raw body text.
C21_CurlExampleCarriesBody ==
    (/\ pc = "detected" /\ format_type = "markdown" /\ documentation.raised = ""
     /\ BodyType(request_details.val.body) # "none"
     /\ DictGet(request_details.val.body, "raw", "") # "") =>
        /\ Contains(documentation.val.content,
                    "--data-raw '"
                        \o EscapeSingleQuotes(DictGet(request_details.val.body, "raw", ""))
                        \o "'")
        /\ Contains(documentation.val.content,
                    CodeFence \o "bash\n"
                        \o generate_curl_command(C21_EntryOf(request_details.val))
                        \o "\n" \o CodeFence)

\* C22: in every program generate_code emits for a supported language and a
\* request_info with a non-empty URL, a body key that is missing or a body
\* without a type included, the request call refers to the body variable
\* (data in python, body in javascript and go) if and only if the program
\* declares that variable on a line before the call.
C22_BodyVariableDeclared ==
    (/\ pc = "generated" /\ language \in supported_languages
     /\ Get(request_details, "url", "") # "") =>
        LET lines == C11_Lines(code.val)
            sends == {j \in DOMAIN lines : C13_Sends(lines[j], language)}
            declares == {i \in DOMAIN lines : C13_Declares(lines[i], language)}
        IN  /\ (sends # {}) <=> (declares # {})
            /\ \A j \in sends : \E i \in declares : i < j

\* The entry with the name of every request header rewritten by Case
C23_Recased(e, Case(_)) ==
    LET request == DictGet(e, "request", <<>>)
        headers == DictGet(request, "headers", <<>>)
    IN  DictSet(e, "request",
                DictSet(request, "headers",
                        [i \in DOMAIN headers |->
                            Header(Case(headers[i].name), headers[i].value)]))

\* What the detector returns for the model extracted from an entry
C23_Detected(e) == detect_authentication(extract_request_details(e).val)

\* C23: authentication detection over the output of the extractor does not
\* depend on the letter case of the request header names: an entry and the
\* entry that differs from it only in the capitalisation of header names
\* (lower case, upper case) get the same type, location and original_value.
C23_HeaderCaseInsensitive ==
    (pc = "detected") =>
        /\ auth_info = C23_Detected(entry)
        /\ \A e \in {C23_Recased(entry, Lower), C23_Recased(entry, Upper)} :
            /\ C23_Detected(e).type = auth_info.type
            /\ C23_Detected(e).location = auth_info.location
            /\ C23_Detected(e).original_value = auth_info.original_value

\* The statement by which a program adds its query parameters to the ones the
\* URL of the request already has: the params argument of requests and
\* URLSearchParams.append add a parameter again, url.Values.Set of Go replaces
\* it
C24_Adds ==
    [python |-> "params=params", javascript |-> "url.searchParams.append(", go |-> "q.Add("]

\* How many times a program sends the query parameter name=val: once if the
\* URL it requests carries it, and once more if it adds its parameters to that
\* URL
C24_TimesSent(program, lang, url, name, val) ==
    (IF /\ Contains(program, url) /\ Len(SplitOnce(url, "?")) = 2
        /\ Contains(SplitOnce(url, "?")[2], name \o "=" \o val)
     THEN 1 ELSE 0)
        + (IF Contains(program, C24_Adds[lang]) /\ Contains(program, JsonString(name))
           THEN 1 ELSE 0)

\* C24: a program generated from a model of the extractor sends each captured
\* query parameter exactly once: when the url of the model carries the query
\* string and query_params holds the same parameters, the program does not
\* attach them a second time.
C24_QueryParamsSentOnce ==
    (/\ pc = "detected" /\ language \in supported_languages /\ code.raised = ""
     /\ request_details.val.url # "") =>
        \A i \in DOMAIN request_details.val.query_params :
            C24_TimesSent(code.val, language, request_details.val.url,
                          request_details.val.query_params[i][1],
                          request_details.val.query_params[i][2]) = 1

\* The single quotes of a part of a command that do not belong to a quote
\* splice
C25_BareQuotes(part) ==
    LET rest == Replace(part, "'\"'\"'", "")
    IN  Cardinality({i \in 1..Len(rest) : SubSeq(rest, i, i) = "'"})

\* C25: in the command generate_curl_command emits, every single quote that
\* comes from the entry (from the url, a header name, a header value or the
\* body text) appears only as the quote splice: besides the splices, each
\* quoted argument of the command (the url, each header, the body text) has
\* only the two quotes that delimit it, and the -X part has none.
C25_QuotesSpliced ==
    pc = "curl_generated" =>
        LET parts == C10_SplitOn(curl_command, " \\\n  ")
        IN  /\ Len(parts) = 1 + C10_Count(C10_Method # "GET") + Len(C10_KeptHeaders)
                                + C10_Count(C10_Text # "")
            /\ \A i \in DOMAIN parts :
                C25_BareQuotes(parts[i]) = (IF StartsWith(parts[i], "-X ") THEN 0 ELSE 2)

====
